---------------------------- MODULE Spec2Model ----------------------------
(***************************************************************************)
(* CatLife: the life-course simulation engine (runSimulation and the       *)
(* helpers it calls), the enhancement layer (enhanceSimulationLocally,     *)
(* enhanceSimulationWithGPT) and the SimulationTimeline / CatLifePage      *)
(* callers of the background enhancement.                                  *)
(*                                                                         *)
(* Numbers.  JavaScript numbers are modelled in fixed point:               *)
(*   - a weight (kg) is an integer count of 0.00001 kg, so 1.5 kg is       *)
(*     150000 and the two-decimal rounding of the code rounds to a         *)
(*     multiple of 1000;                                                   *)
(*   - food ounces and the calorie proxy use the same 0.00001 unit;        *)
(*   - ages are whole months, as in the code.                              *)
(* A nullable value (T | null) is <<>> for null and <<v>> for a value.     *)
(***************************************************************************)
EXTENDS Integers, Sequences, FiniteSets, TLC

VARIABLES
  \* ---- runSimulation (page.tsx 840-917) and the enhancer (part_001) ----
  config,          \* SimulationConfig handed to runSimulation
  pc,              \* position of the pipeline, see PcValues
  month,           \* loop counter of runSimulation
  currentWeight,   \* running weight of runSimulation
  points,          \* SimulationPoint[] built so far
  result,          \* SimulationResult returned by runSimulation, <<>> before
  localEnhanced,   \* value of enhanceSimulationLocally, <<>> before
  response,        \* what the milestone-notes request came back with
  returned,        \* value the enhanceSimulationWithGPT promise resolved to
  \* ---- CatLifePage (page.tsx 33-485) and SimulationTimeline ----------
  currentStep,     \* page: AppStep
  setupMode,       \* page: "quick" | "chat" | null
  pageCatProfile,  \* page: the profile handed to SimulationTimeline
  pageCareRoutine, \* page: the routine handed to SimulationTimeline
  simulationResult,\* page: result handed to ReminderSetup, <<>> for null
  timeline,        \* the mounted SimulationTimeline instance, <<>> if none
  instances,       \* number of SimulationTimeline instances mounted so far
  runs,            \* number of /api/catlife/simulate runs started so far
  resets,          \* number of times handleReset has run
  inflight         \* requests awaiting a response

simVars == << config, pc, month, currentWeight, points, result,
              localEnhanced, response, returned >>
uiVars  == << currentStep, setupMode, pageCatProfile, pageCareRoutine, simulationResult,
              timeline, instances, runs, resets, inflight >>
vars    == << config, pc, month, currentWeight, points, result,
              localEnhanced, response, returned,
              currentStep, setupMode, pageCatProfile, pageCareRoutine, simulationResult,
              timeline, instances, runs, resets, inflight >>

-----------------------------------------------------------------------------
(* Nullable values and small helpers *)

None == << >>
Some(v) == << v >>
IsNull(x) == x = << >>
\* JavaScript's  x ?? d
Coalesce(x, d) == IF x = << >> THEN d ELSE x[1]

\* F(x) with x evaluated once, before F reads it
Bind(x, F(_)) == CHOOSE r \in { F(v) : v \in { x } } : TRUE

Min2(a, b) == IF a < b THEN a ELSE b
Max2(a, b) == IF a > b THEN a ELSE b
Abs(a) == IF a < 0 THEN -a ELSE a

\* Array.prototype.sort((a, b) => a.ageMonths - b.ageMonths): a stable
\* insertion of each element after the elements that are not greater.
RECURSIVE SortByAge(_)
InsertByAge(sorted, a) ==
  LET k == Cardinality({ i \in 1..Len(sorted) : sorted[i].ageMonths <= a.ageMonths })
  IN  SubSeq(sorted, 1, k) \o << a >> \o SubSeq(sorted, k + 1, Len(sorted))
SortByAge(s) ==
  Bind(s, LAMBDA v :
    IF v = << >> THEN << >>
    ELSE Bind(SortByAge(SubSeq(v, 1, Len(v) - 1)),
              LAMBDA sorted : InsertByAge(sorted, v[Len(v)])))

-----------------------------------------------------------------------------
(* Breed Health Registry: breed-health-data.ts                             *)
(* typicalOnsetYears and a screening's ageYears may be 0.5, so they are    *)
(* kept in months (onsetMonths = typicalOnsetYears * 12, ageMonths =       *)
(* ageYears * 12) together with the text JavaScript prints for the number. *)

\* Maine Coon (breed-health-data.ts lines 43-94)
maineCoon ==
  [ breed |-> "Maine Coon",
    aliases |-> << "maine coon", "mainecoon", "maine-coon" >>,
    sizeCategory |-> "large",
    lifeExpectancy |-> [min |-> 12, max |-> 15],
    idealWeight |-> [min |-> 550000, max |-> 1000000],
    healthRisks |-> <<
      [condition |-> "Hypertrophic Cardiomyopathy (HCM)", riskLevel |-> "high", onsetMonths |-> 48, onsetText |-> "4",
       monitoringAdvice |-> "Annual echocardiograms starting at age 3-4. Watch for lethargy, rapid breathing."],
      [condition |-> "Hip Dysplasia", riskLevel |-> "moderate", onsetMonths |-> 24, onsetText |-> "2",
       monitoringAdvice |-> "Watch for difficulty jumping or climbing. X-rays if limping develops."],
      [condition |-> "Spinal Muscular Atrophy (SMA)", riskLevel |-> "low", onsetMonths |-> 6, onsetText |-> "0.5",
       monitoringAdvice |-> "Genetic testing available. Usually apparent in kittens."],
      [condition |-> "Polycystic Kidney Disease (PKD)", riskLevel |-> "moderate", onsetMonths |-> 84, onsetText |-> "7",
       monitoringAdvice |-> "Ultrasound screening after age 5. Monitor water intake."] >>,
    screeningSchedule |-> <<
      [ageMonths |-> 12, ageText |-> "1", screenings |-> << "Baseline bloodwork", "Dental exam" >>,
       reason |-> "Establish baseline health markers"],
      [ageMonths |-> 36, ageText |-> "3", screenings |-> << "Echocardiogram", "Heart murmur check" >>,
       reason |-> "Early HCM detection - critical for Maine Coons"],
      [ageMonths |-> 60, ageText |-> "5", screenings |-> << "Echocardiogram", "Kidney ultrasound", "Full bloodwork" >>,
       reason |-> "Monitor heart and early kidney screening"],
      [ageMonths |-> 84, ageText |-> "7", screenings |-> << "Echocardiogram", "Kidney function panel", "Thyroid check" >>,
       reason |-> "Senior screening begins"],
      [ageMonths |-> 120, ageText |-> "10", screenings |-> << "Bi-annual echocardiogram", "Complete senior panel", "Blood pressure" >>,
       reason |-> "Intensive monitoring for geriatric care"] >>,
    ageSpecificAdvice |-> <<
      [ageRange |-> << 0, 2 >>,
       advice |-> << "Support healthy bone development with quality nutrition", "Monitor growth rate - Maine Coons grow until age 4-5", "Establish jumping-friendly furniture arrangements" >>],
      [ageRange |-> << 2, 5 >>,
       advice |-> << "Schedule first echocardiogram by age 3-4", "Learn to monitor resting respiratory rate at home", "Maintain healthy weight to reduce heart strain" >>],
      [ageRange |-> << 5, 8 >>,
       advice |-> << "Annual echocardiograms are essential", "Begin kidney function monitoring", "Watch for mobility changes - hip issues may emerge" >>],
      [ageRange |-> << 8, 12 >>,
       advice |-> << "Bi-annual vet visits recommended", "Consider joint supplements", "Monitor for signs of heart disease progression" >>],
      [ageRange |-> << 12, 20 >>,
       advice |-> << "Focus on comfort and pain management", "Easy access to food, water, and litter", "Regular heart monitoring continues" >>] >> ]

\* Ragdoll (breed-health-data.ts lines 96-138)
ragdoll ==
  [ breed |-> "Ragdoll",
    aliases |-> << "ragdoll", "rag doll", "rag-doll" >>,
    sizeCategory |-> "large",
    lifeExpectancy |-> [min |-> 12, max |-> 17],
    idealWeight |-> [min |-> 450000, max |-> 900000],
    healthRisks |-> <<
      [condition |-> "Hypertrophic Cardiomyopathy (HCM)", riskLevel |-> "high", onsetMonths |-> 36, onsetText |-> "3",
       monitoringAdvice |-> "Annual echocardiograms starting at age 2-3. Genetic test available."],
      [condition |-> "Bladder Stones", riskLevel |-> "moderate", onsetMonths |-> 48, onsetText |-> "4",
       monitoringAdvice |-> "Ensure adequate water intake. Watch for urinary difficulties."],
      [condition |-> "Feline Infectious Peritonitis (FIP)", riskLevel |-> "moderate", onsetMonths |-> 12, onsetText |-> "1",
       monitoringAdvice |-> "More susceptible than average. Watch for fever, weight loss."] >>,
    screeningSchedule |-> <<
      [ageMonths |-> 12, ageText |-> "1", screenings |-> << "Baseline bloodwork", "Urinalysis" >>,
       reason |-> "Establish baseline"],
      [ageMonths |-> 24, ageText |-> "2", screenings |-> << "Echocardiogram", "Genetic HCM test" >>,
       reason |-> "Early cardiac screening"],
      [ageMonths |-> 60, ageText |-> "5", screenings |-> << "Echocardiogram", "Urinalysis", "Kidney panel" >>,
       reason |-> "Regular monitoring"],
      [ageMonths |-> 96, ageText |-> "8", screenings |-> << "Full senior panel", "Echocardiogram", "Blood pressure" >>,
       reason |-> "Senior screening"] >>,
    ageSpecificAdvice |-> <<
      [ageRange |-> << 0, 2 >>,
       advice |-> << "Complete vaccination schedule is crucial", "Monitor for FIP symptoms", "Support slow, healthy growth" >>],
      [ageRange |-> << 2, 5 >>,
       advice |-> << "First echocardiogram by age 2-3", "Encourage water intake for bladder health", "Consider wet food to increase hydration" >>],
      [ageRange |-> << 5, 10 >>,
       advice |-> << "Annual heart screening", "Regular urinalysis for bladder health", "Maintain healthy weight" >>],
      [ageRange |-> << 10, 20 >>,
       advice |-> << "Bi-annual checkups", "Joint support as needed", "Continue heart monitoring" >>] >> ]

\* Norwegian Forest Cat (breed-health-data.ts lines 140-181)
norwegianForest ==
  [ breed |-> "Norwegian Forest Cat",
    aliases |-> << "norwegian forest", "norwegian forest cat", "wegie", "norsk skogkatt" >>,
    sizeCategory |-> "large",
    lifeExpectancy |-> [min |-> 12, max |-> 16],
    idealWeight |-> [min |-> 450000, max |-> 900000],
    healthRisks |-> <<
      [condition |-> "Glycogen Storage Disease IV (GSD IV)", riskLevel |-> "moderate", onsetMonths |-> 6, onsetText |-> "0.5",
       monitoringAdvice |-> "Genetic test available. Fatal if present - usually shows in kittens."],
      [condition |-> "Hypertrophic Cardiomyopathy (HCM)", riskLevel |-> "moderate", onsetMonths |-> 60, onsetText |-> "5",
       monitoringAdvice |-> "Annual heart checks after age 4."],
      [condition |-> "Hip Dysplasia", riskLevel |-> "moderate", onsetMonths |-> 36, onsetText |-> "3",
       monitoringAdvice |-> "Monitor mobility, especially as they age."] >>,
    screeningSchedule |-> <<
      [ageMonths |-> 12, ageText |-> "1", screenings |-> << "GSD IV genetic test", "Baseline bloodwork" >>,
       reason |-> "Rule out genetic disease"],
      [ageMonths |-> 48, ageText |-> "4", screenings |-> << "Echocardiogram", "Hip evaluation" >>,
       reason |-> "Begin cardiac monitoring"],
      [ageMonths |-> 84, ageText |-> "7", screenings |-> << "Full panel", "Heart check", "Joint assessment" >>,
       reason |-> "Senior preparation"] >>,
    ageSpecificAdvice |-> <<
      [ageRange |-> << 0, 2 >>,
       advice |-> << "GSD IV test if not done by breeder", "Support healthy coat with omega fatty acids", "Establish grooming routine for long coat" >>],
      [ageRange |-> << 2, 6 >>,
       advice |-> << "Regular grooming to prevent mats", "Monitor activity levels for joint health", "Begin cardiac screening at 4" >>],
      [ageRange |-> << 6, 12 >>,
       advice |-> << "Joint supplements may help", "Continue regular heart checks", "Watch weight as activity decreases" >>],
      [ageRange |-> << 12, 20 >>,
       advice |-> << "Easy access accommodations", "Regular vet visits", "Pain management if needed" >>] >> ]

\* British Shorthair (breed-health-data.ts lines 183-225)
britishShorthair ==
  [ breed |-> "British Shorthair",
    aliases |-> << "british shorthair", "british blue", "bsh" >>,
    sizeCategory |-> "large",
    lifeExpectancy |-> [min |-> 12, max |-> 17],
    idealWeight |-> [min |-> 400000, max |-> 800000],
    healthRisks |-> <<
      [condition |-> "Hypertrophic Cardiomyopathy (HCM)", riskLevel |-> "high", onsetMonths |-> 48, onsetText |-> "4",
       monitoringAdvice |-> "Annual echocardiograms starting at age 3."],
      [condition |-> "Obesity", riskLevel |-> "high", onsetMonths |-> 24, onsetText |-> "2",
       monitoringAdvice |-> "Strict portion control essential. This breed gains weight easily."],
      [condition |-> "Polycystic Kidney Disease (PKD)", riskLevel |-> "moderate", onsetMonths |-> 84, onsetText |-> "7",
       monitoringAdvice |-> "Ultrasound screening after age 5."] >>,
    screeningSchedule |-> <<
      [ageMonths |-> 12, ageText |-> "1", screenings |-> << "Weight assessment", "Baseline bloodwork" >>,
       reason |-> "Establish healthy baseline"],
      [ageMonths |-> 36, ageText |-> "3", screenings |-> << "Echocardiogram", "Body condition score" >>,
       reason |-> "Heart and weight monitoring"],
      [ageMonths |-> 72, ageText |-> "6", screenings |-> << "Kidney ultrasound", "Heart check", "Diabetes screening" >>,
       reason |-> "Preventive screening"],
      [ageMonths |-> 108, ageText |-> "9", screenings |-> << "Full senior panel", "Cardiac assessment" >>,
       reason |-> "Senior care"] >>,
    ageSpecificAdvice |-> <<
      [ageRange |-> << 0, 2 >>,
       advice |-> << "Establish portion-controlled feeding early", "Encourage active play despite calm nature", "Avoid free-feeding" >>],
      [ageRange |-> << 2, 5 >>,
       advice |-> << "First echocardiogram by age 3", "Monitor weight monthly", "Interactive play sessions daily" >>],
      [ageRange |-> << 5, 10 >>,
       advice |-> << "Watch for diabetes signs", "Annual heart screening", "Kidney monitoring begins" >>],
      [ageRange |-> << 10, 20 >>,
       advice |-> << "Careful calorie management", "Regular cardiac checks", "Joint support for heavier cats" >>] >> ]

\* Savannah (breed-health-data.ts lines 227-261)
savannah ==
  [ breed |-> "Savannah",
    aliases |-> << "savannah", "savannah cat" >>,
    sizeCategory |-> "large",
    lifeExpectancy |-> [min |-> 12, max |-> 20],
    idealWeight |-> [min |-> 550000, max |-> 1100000],
    healthRisks |-> <<
      [condition |-> "Hypertrophic Cardiomyopathy (HCM)", riskLevel |-> "moderate", onsetMonths |-> 60, onsetText |-> "5",
       monitoringAdvice |-> "Annual heart screening after age 4."],
      [condition |-> "Hybrid Male Sterility", riskLevel |-> "low", onsetMonths |-> 0, onsetText |-> "0",
       monitoringAdvice |-> "Early generation males (F1-F4) are typically sterile."] >>,
    screeningSchedule |-> <<
      [ageMonths |-> 24, ageText |-> "2", screenings |-> << "Baseline bloodwork", "Heart check" >>,
       reason |-> "Establish baseline"],
      [ageMonths |-> 60, ageText |-> "5", screenings |-> << "Echocardiogram", "Full panel" >>,
       reason |-> "Cardiac monitoring"],
      [ageMonths |-> 96, ageText |-> "8", screenings |-> << "Senior screening", "Heart assessment" >>,
       reason |-> "Senior preparation"] >>,
    ageSpecificAdvice |-> <<
      [ageRange |-> << 0, 3 >>,
       advice |-> << "Provide extensive enrichment and space", "High-protein diet essential", "Socialize well during this period" >>],
      [ageRange |-> << 3, 8 >>,
       advice |-> << "Maintain high activity levels", "Regular heart monitoring", "Mental stimulation crucial" >>],
      [ageRange |-> << 8, 15 >>,
       advice |-> << "May still be very active", "Regular health checks", "Watch for any slowing down" >>],
      [ageRange |-> << 15, 20 >>,
       advice |-> << "Adjust activity to comfort", "Regular monitoring", "Comfort-focused care" >>] >> ]

\* Persian (breed-health-data.ts lines 267-316)
persian ==
  [ breed |-> "Persian",
    aliases |-> << "persian", "persian cat", "longhair" >>,
    sizeCategory |-> "medium",
    lifeExpectancy |-> [min |-> 12, max |-> 17],
    idealWeight |-> [min |-> 350000, max |-> 550000],
    healthRisks |-> <<
      [condition |-> "Polycystic Kidney Disease (PKD)", riskLevel |-> "high", onsetMonths |-> 84, onsetText |-> "7",
       monitoringAdvice |-> "Genetic test available. Ultrasound screening by age 5."],
      [condition |-> "Brachycephalic Airway Syndrome", riskLevel |-> "high", onsetMonths |-> 0, onsetText |-> "0",
       monitoringAdvice |-> "Present from birth due to flat face. Avoid heat and stress."],
      [condition |-> "Progressive Retinal Atrophy (PRA)", riskLevel |-> "moderate", onsetMonths |-> 48, onsetText |-> "4",
       monitoringAdvice |-> "Eye exams yearly. Watch for night blindness."],
      [condition |-> "Hypertrophic Cardiomyopathy (HCM)", riskLevel |-> "moderate", onsetMonths |-> 60, onsetText |-> "5",
       monitoringAdvice |-> "Annual heart screening after age 4."] >>,
    screeningSchedule |-> <<
      [ageMonths |-> 12, ageText |-> "1", screenings |-> << "PKD genetic test", "Eye exam", "Baseline bloodwork" >>,
       reason |-> "Early genetic screening"],
      [ageMonths |-> 36, ageText |-> "3", screenings |-> << "Eye exam", "Heart check", "Kidney ultrasound" >>,
       reason |-> "Preventive monitoring"],
      [ageMonths |-> 60, ageText |-> "5", screenings |-> << "Kidney ultrasound", "Full bloodwork", "Echocardiogram" >>,
       reason |-> "PKD typically shows by now"],
      [ageMonths |-> 96, ageText |-> "8", screenings |-> << "Complete senior panel", "Kidney function", "Eye exam" >>,
       reason |-> "Senior monitoring"] >>,
    ageSpecificAdvice |-> <<
      [ageRange |-> << 0, 2 >>,
       advice |-> << "Keep face clean and dry", "Monitor breathing in warm weather", "Daily eye cleaning routine", "PKD genetic test if not done" >>],
      [ageRange |-> << 2, 5 >>,
       advice |-> << "Begin kidney screening by age 3", "Annual eye exams essential", "Maintain grooming routine for coat" >>],
      [ageRange |-> << 5, 10 >>,
       advice |-> << "Regular kidney function tests", "Consider renal-support diet if needed", "Keep stress levels low", "Monitor water intake" >>],
      [ageRange |-> << 10, 20 >>,
       advice |-> << "Kidney management is key", "Climate control important", "Regular gentle grooming", "Easy access to resources" >>] >> ]

\* Bengal (breed-health-data.ts lines 318-367)
bengal ==
  [ breed |-> "Bengal",
    aliases |-> << "bengal", "bengal cat" >>,
    sizeCategory |-> "medium",
    lifeExpectancy |-> [min |-> 12, max |-> 16],
    idealWeight |-> [min |-> 400000, max |-> 700000],
    healthRisks |-> <<
      [condition |-> "Pyruvate Kinase Deficiency (PK Deficiency)", riskLevel |-> "moderate", onsetMonths |-> 24, onsetText |-> "2",
       monitoringAdvice |-> "Genetic test available. Causes anemia."],
      [condition |-> "Hypertrophic Cardiomyopathy (HCM)", riskLevel |-> "moderate", onsetMonths |-> 48, onsetText |-> "4",
       monitoringAdvice |-> "Annual echocardiograms after age 3."],
      [condition |-> "Progressive Retinal Atrophy (PRA)", riskLevel |-> "moderate", onsetMonths |-> 36, onsetText |-> "3",
       monitoringAdvice |-> "Genetic test available. Annual eye exams."],
      [condition |-> "Flat Chested Kitten Syndrome", riskLevel |-> "low", onsetMonths |-> 0, onsetText |-> "0",
       monitoringAdvice |-> "Apparent at birth. Reputable breeders screen for this."] >>,
    screeningSchedule |-> <<
      [ageMonths |-> 12, ageText |-> "1", screenings |-> << "PK deficiency test", "PRA genetic test", "Baseline bloodwork" >>,
       reason |-> "Genetic screening"],
      [ageMonths |-> 36, ageText |-> "3", screenings |-> << "Echocardiogram", "Eye exam" >>,
       reason |-> "Begin cardiac monitoring"],
      [ageMonths |-> 72, ageText |-> "6", screenings |-> << "Heart check", "Full bloodwork", "Eye exam" >>,
       reason |-> "Ongoing monitoring"],
      [ageMonths |-> 120, ageText |-> "10", screenings |-> << "Senior panel", "Cardiac assessment" >>,
       reason |-> "Senior care"] >>,
    ageSpecificAdvice |-> <<
      [ageRange |-> << 0, 2 >>,
       advice |-> << "Genetic testing for PK and PRA", "Provide extensive exercise opportunities", "Mental stimulation is crucial", "High-protein diet supports activity level" >>],
      [ageRange |-> << 2, 6 >>,
       advice |-> << "First echocardiogram by age 3", "Maintain high activity lifestyle", "Regular eye exams", "Monitor energy levels for anemia signs" >>],
      [ageRange |-> << 6, 12 >>,
       advice |-> << "Continue active lifestyle", "Annual heart screening", "Watch for vision changes", "Regular health checks" >>],
      [ageRange |-> << 12, 20 >>,
       advice |-> << "Bengals often remain active into old age", "Adjust play to comfort level", "Regular monitoring", "Joint support as needed" >>] >> ]

\* Siamese (breed-health-data.ts lines 369-418)
siamese ==
  [ breed |-> "Siamese",
    aliases |-> << "siamese", "siamese cat", "meezer" >>,
    sizeCategory |-> "medium",
    lifeExpectancy |-> [min |-> 12, max |-> 20],
    idealWeight |-> [min |-> 350000, max |-> 550000],
    healthRisks |-> <<
      [condition |-> "Amyloidosis", riskLevel |-> "high", onsetMonths |-> 84, onsetText |-> "7",
       monitoringAdvice |-> "Liver form common in Siamese. Regular bloodwork to monitor liver function."],
      [condition |-> "Dental Disease", riskLevel |-> "high", onsetMonths |-> 24, onsetText |-> "2",
       monitoringAdvice |-> "Annual dental exams. Consider dental diet or regular brushing."],
      [condition |-> "Respiratory Issues", riskLevel |-> "moderate", onsetMonths |-> 0, onsetText |-> "0",
       monitoringAdvice |-> "More prone to asthma and bronchial disease."],
      [condition |-> "Progressive Retinal Atrophy (PRA)", riskLevel |-> "moderate", onsetMonths |-> 36, onsetText |-> "3",
       monitoringAdvice |-> "Annual eye exams recommended."] >>,
    screeningSchedule |-> <<
      [ageMonths |-> 12, ageText |-> "1", screenings |-> << "Dental exam", "Baseline bloodwork", "Eye exam" >>,
       reason |-> "Establish baseline"],
      [ageMonths |-> 36, ageText |-> "3", screenings |-> << "Dental cleaning if needed", "Liver panel", "Eye exam" >>,
       reason |-> "Early monitoring"],
      [ageMonths |-> 72, ageText |-> "6", screenings |-> << "Full bloodwork including liver", "Dental assessment", "Respiratory check" >>,
       reason |-> "Amyloidosis monitoring begins"],
      [ageMonths |-> 108, ageText |-> "9", screenings |-> << "Senior panel with liver focus", "Dental care", "Full exam" >>,
       reason |-> "Senior care"] >>,
    ageSpecificAdvice |-> <<
      [ageRange |-> << 0, 2 >>,
       advice |-> << "Start dental care routine early", "Consider dental-friendly diet", "Socialize well - Siamese are very social", "Monitor for respiratory issues" >>],
      [ageRange |-> << 2, 6 >>,
       advice |-> << "Regular dental checkups essential", "Watch for signs of liver issues", "Keep stress low - they're sensitive", "Mental stimulation crucial" >>],
      [ageRange |-> << 6, 12 >>,
       advice |-> << "Liver function monitoring important", "Continue dental care", "Watch for appetite changes", "Regular comprehensive bloodwork" >>],
      [ageRange |-> << 12, 20 >>,
       advice |-> << "Siamese often live into late teens", "Monitor liver and kidney function", "Dental health remains important", "Lots of companionship needed" >>] >> ]

\* Abyssinian (breed-health-data.ts lines 420-469)
abyssinian ==
  [ breed |-> "Abyssinian",
    aliases |-> << "abyssinian", "aby", "abyssinian cat" >>,
    sizeCategory |-> "medium",
    lifeExpectancy |-> [min |-> 12, max |-> 15],
    idealWeight |-> [min |-> 300000, max |-> 500000],
    healthRisks |-> <<
      [condition |-> "Renal Amyloidosis", riskLevel |-> "high", onsetMonths |-> 60, onsetText |-> "5",
       monitoringAdvice |-> "Regular kidney function tests starting at age 4."],
      [condition |-> "Pyruvate Kinase Deficiency (PK Deficiency)", riskLevel |-> "moderate", onsetMonths |-> 24, onsetText |-> "2",
       monitoringAdvice |-> "Genetic test available."],
      [condition |-> "Progressive Retinal Atrophy (PRA)", riskLevel |-> "moderate", onsetMonths |-> 36, onsetText |-> "3",
       monitoringAdvice |-> "Genetic test available. Annual eye exams."],
      [condition |-> "Patellar Luxation", riskLevel |-> "moderate", onsetMonths |-> 24, onsetText |-> "2",
       monitoringAdvice |-> "Watch for limping or skipping gait."] >>,
    screeningSchedule |-> <<
      [ageMonths |-> 12, ageText |-> "1", screenings |-> << "PK deficiency test", "PRA test", "Baseline bloodwork" >>,
       reason |-> "Genetic screening"],
      [ageMonths |-> 48, ageText |-> "4", screenings |-> << "Kidney function panel", "Eye exam", "Joint assessment" >>,
       reason |-> "Begin amyloidosis monitoring"],
      [ageMonths |-> 84, ageText |-> "7", screenings |-> << "Full bloodwork", "Kidney ultrasound", "Heart check" >>,
       reason |-> "Senior preparation"],
      [ageMonths |-> 120, ageText |-> "10", screenings |-> << "Comprehensive senior panel", "Kidney monitoring" >>,
       reason |-> "Senior care"] >>,
    ageSpecificAdvice |-> <<
      [ageRange |-> << 0, 2 >>,
       advice |-> << "Complete genetic testing", "Provide lots of climbing and play", "Monitor joints during growth", "High-quality protein diet" >>],
      [ageRange |-> << 2, 5 >>,
       advice |-> << "Establish kidney function baseline by age 4", "Encourage hydration", "Regular eye exams", "Monitor activity levels for anemia" >>],
      [ageRange |-> << 5, 10 >>,
       advice |-> << "Regular kidney monitoring crucial", "Consider kidney-supportive diet", "Watch water intake closely", "Continue active lifestyle" >>],
      [ageRange |-> << 10, 15 >>,
       advice |-> << "Intensive kidney monitoring", "Joint support if needed", "Keep activity appropriate", "Regular comprehensive checks" >>] >> ]

\* Exotic Shorthair (breed-health-data.ts lines 471-511)
exoticShorthair ==
  [ breed |-> "Exotic Shorthair",
    aliases |-> << "exotic shorthair", "exotic", "shorthaired persian" >>,
    sizeCategory |-> "medium",
    lifeExpectancy |-> [min |-> 12, max |-> 15],
    idealWeight |-> [min |-> 350000, max |-> 600000],
    healthRisks |-> <<
      [condition |-> "Polycystic Kidney Disease (PKD)", riskLevel |-> "high", onsetMonths |-> 84, onsetText |-> "7",
       monitoringAdvice |-> "Same as Persian. Genetic test and ultrasound screening."],
      [condition |-> "Brachycephalic Airway Syndrome", riskLevel |-> "high", onsetMonths |-> 0, onsetText |-> "0",
       monitoringAdvice |-> "Flat face causes breathing issues. Avoid heat stress."],
      [condition |-> "Dental Crowding", riskLevel |-> "moderate", onsetMonths |-> 12, onsetText |-> "1",
       monitoringAdvice |-> "Flat face can cause dental issues. Regular dental exams."] >>,
    screeningSchedule |-> <<
      [ageMonths |-> 12, ageText |-> "1", screenings |-> << "PKD genetic test", "Dental exam", "Baseline bloodwork" >>,
       reason |-> "Genetic screening"],
      [ageMonths |-> 48, ageText |-> "4", screenings |-> << "Kidney ultrasound", "Dental assessment" >>,
       reason |-> "PKD monitoring"],
      [ageMonths |-> 84, ageText |-> "7", screenings |-> << "Full panel", "Kidney function", "Respiratory assessment" >>,
       reason |-> "Senior preparation"] >>,
    ageSpecificAdvice |-> <<
      [ageRange |-> << 0, 3 >>,
       advice |-> << "Keep environment cool", "Monitor breathing especially in summer", "Regular dental care", "PKD genetic test" >>],
      [ageRange |-> << 3, 7 >>,
       advice |-> << "Begin kidney screening", "Maintain dental health", "Climate control important", "Monitor weight" >>],
      [ageRange |-> << 7, 15 >>,
       advice |-> << "Regular kidney monitoring", "Dental care continues", "Keep stress low", "Easy breathing environment" >>] >> ]

\* Burmese (breed-health-data.ts lines 513-555)
burmese ==
  [ breed |-> "Burmese",
    aliases |-> << "burmese", "burmese cat" >>,
    sizeCategory |-> "medium",
    lifeExpectancy |-> [min |-> 15, max |-> 18],
    idealWeight |-> [min |-> 350000, max |-> 550000],
    healthRisks |-> <<
      [condition |-> "Diabetes Mellitus", riskLevel |-> "high", onsetMonths |-> 96, onsetText |-> "8",
       monitoringAdvice |-> "More prone than other breeds. Regular glucose monitoring after age 7."],
      [condition |-> "Hypokalaemia", riskLevel |-> "moderate", onsetMonths |-> 36, onsetText |-> "3",
       monitoringAdvice |-> "Genetic predisposition to low potassium. Bloodwork monitoring."],
      [condition |-> "Cranial Deformities", riskLevel |-> "low", onsetMonths |-> 0, onsetText |-> "0",
       monitoringAdvice |-> "Present at birth in affected kittens. Reputable breeders screen."] >>,
    screeningSchedule |-> <<
      [ageMonths |-> 24, ageText |-> "2", screenings |-> << "Baseline bloodwork including potassium", "General health check" >>,
       reason |-> "Establish baseline"],
      [ageMonths |-> 72, ageText |-> "6", screenings |-> << "Glucose screening", "Potassium levels", "Full panel" >>,
       reason |-> "Pre-diabetes monitoring"],
      [ageMonths |-> 108, ageText |-> "9", screenings |-> << "Glucose tolerance", "Full senior panel" >>,
       reason |-> "Diabetes monitoring"],
      [ageMonths |-> 144, ageText |-> "12", screenings |-> << "Comprehensive senior workup", "Glucose monitoring" >>,
       reason |-> "Senior care"] >>,
    ageSpecificAdvice |-> <<
      [ageRange |-> << 0, 3 >>,
       advice |-> << "Monitor potassium levels", "High-quality diet", "Regular exercise to maintain weight", "Socialize well" >>],
      [ageRange |-> << 3, 7 >>,
       advice |-> << "Watch weight carefully", "Regular bloodwork", "Maintain active lifestyle", "Avoid overfeeding" >>],
      [ageRange |-> << 7, 12 >>,
       advice |-> << "Regular glucose monitoring", "Weight management critical", "Consider low-carb diet", "Watch for diabetes signs" >>],
      [ageRange |-> << 12, 20 >>,
       advice |-> << "Burmese often live 15-18 years", "Continue metabolic monitoring", "Maintain healthy weight", "Regular comprehensive exams" >>] >> ]

\* Oriental Shorthair (breed-health-data.ts lines 557-597)
orientalShorthair ==
  [ breed |-> "Oriental Shorthair",
    aliases |-> << "oriental shorthair", "oriental", "osh" >>,
    sizeCategory |-> "medium",
    lifeExpectancy |-> [min |-> 12, max |-> 15],
    idealWeight |-> [min |-> 300000, max |-> 500000],
    healthRisks |-> <<
      [condition |-> "Amyloidosis (Liver)", riskLevel |-> "high", onsetMonths |-> 72, onsetText |-> "6",
       monitoringAdvice |-> "Related to Siamese. Regular liver function tests."],
      [condition |-> "Dilated Cardiomyopathy (DCM)", riskLevel |-> "moderate", onsetMonths |-> 60, onsetText |-> "5",
       monitoringAdvice |-> "Annual heart screening after age 4."],
      [condition |-> "Dental Disease", riskLevel |-> "moderate", onsetMonths |-> 24, onsetText |-> "2",
       monitoringAdvice |-> "Similar to Siamese. Regular dental care essential."] >>,
    screeningSchedule |-> <<
      [ageMonths |-> 24, ageText |-> "2", screenings |-> << "Dental exam", "Baseline bloodwork" >>,
       reason |-> "Establish baseline"],
      [ageMonths |-> 48, ageText |-> "4", screenings |-> << "Heart check", "Liver panel", "Dental assessment" >>,
       reason |-> "Begin cardiac monitoring"],
      [ageMonths |-> 84, ageText |-> "7", screenings |-> << "Full bloodwork", "Echocardiogram", "Dental care" >>,
       reason |-> "Senior preparation"] >>,
    ageSpecificAdvice |-> <<
      [ageRange |-> << 0, 3 >>,
       advice |-> << "Begin dental routine early", "High-protein diet", "Lots of social interaction", "Mental stimulation crucial" >>],
      [ageRange |-> << 3, 7 >>,
       advice |-> << "Begin cardiac screening", "Monitor liver function", "Continue dental care", "Keep active and engaged" >>],
      [ageRange |-> << 7, 15 >>,
       advice |-> << "Regular comprehensive exams", "Watch for signs of amyloidosis", "Dental health maintenance", "Heart monitoring continues" >>] >> ]

\* Russian Blue (breed-health-data.ts lines 599-633)
russianBlue ==
  [ breed |-> "Russian Blue",
    aliases |-> << "russian blue", "archangel blue" >>,
    sizeCategory |-> "medium",
    lifeExpectancy |-> [min |-> 15, max |-> 20],
    idealWeight |-> [min |-> 350000, max |-> 550000],
    healthRisks |-> <<
      [condition |-> "Bladder Stones", riskLevel |-> "moderate", onsetMonths |-> 60, onsetText |-> "5",
       monitoringAdvice |-> "Encourage water intake. Regular urinalysis."],
      [condition |-> "Obesity", riskLevel |-> "moderate", onsetMonths |-> 36, onsetText |-> "3",
       monitoringAdvice |-> "This breed loves food. Strict portion control needed."] >>,
    screeningSchedule |-> <<
      [ageMonths |-> 24, ageText |-> "2", screenings |-> << "Baseline bloodwork", "Weight assessment" >>,
       reason |-> "Establish baseline"],
      [ageMonths |-> 60, ageText |-> "5", screenings |-> << "Urinalysis", "Weight check", "Bloodwork" >>,
       reason |-> "Bladder health monitoring"],
      [ageMonths |-> 96, ageText |-> "8", screenings |-> << "Senior panel", "Urinalysis" >>,
       reason |-> "Senior preparation"] >>,
    ageSpecificAdvice |-> <<
      [ageRange |-> << 0, 3 >>,
       advice |-> << "Establish portion control early", "Encourage play despite shy nature", "High-quality diet", "Gradual socialization" >>],
      [ageRange |-> << 3, 8 >>,
       advice |-> << "Monitor weight closely", "Ensure adequate water intake", "Consider wet food for hydration", "Regular urinalysis" >>],
      [ageRange |-> << 8, 15 >>,
       advice |-> << "Continue weight management", "Regular health checks", "This breed ages gracefully", "Maintain enrichment" >>],
      [ageRange |-> << 15, 20 >>,
       advice |-> << "Russian Blues often live very long", "Regular senior checks", "Comfortable environment", "Monitor for age-related changes" >>] >> ]

\* Sphynx (breed-health-data.ts lines 639-688)
sphynx ==
  [ breed |-> "Sphynx",
    aliases |-> << "sphynx", "sphinx", "hairless cat" >>,
    sizeCategory |-> "small",
    lifeExpectancy |-> [min |-> 12, max |-> 15],
    idealWeight |-> [min |-> 300000, max |-> 500000],
    healthRisks |-> <<
      [condition |-> "Hypertrophic Cardiomyopathy (HCM)", riskLevel |-> "high", onsetMonths |-> 36, onsetText |-> "3",
       monitoringAdvice |-> "Annual echocardiograms starting at age 2. High prevalence in breed."],
      [condition |-> "Skin Issues", riskLevel |-> "high", onsetMonths |-> 0, onsetText |-> "0",
       monitoringAdvice |-> "Regular bathing needed. Watch for oil buildup and infections."],
      [condition |-> "Temperature Sensitivity", riskLevel |-> "moderate", onsetMonths |-> 0, onsetText |-> "0",
       monitoringAdvice |-> "No fur means they need warmth. Provide heated beds, sweaters."],
      [condition |-> "Hereditary Myopathy", riskLevel |-> "moderate", onsetMonths |-> 12, onsetText |-> "1",
       monitoringAdvice |-> "Genetic predisposition. Watch for muscle weakness."] >>,
    screeningSchedule |-> <<
      [ageMonths |-> 12, ageText |-> "1", screenings |-> << "Skin assessment", "Baseline bloodwork", "Heart check" >>,
       reason |-> "Establish baseline"],
      [ageMonths |-> 24, ageText |-> "2", screenings |-> << "Echocardiogram", "Skin check" >>,
       reason |-> "Critical - begin HCM monitoring early"],
      [ageMonths |-> 48, ageText |-> "4", screenings |-> << "Annual echocardiogram", "Full panel" >>,
       reason |-> "Ongoing cardiac monitoring"],
      [ageMonths |-> 96, ageText |-> "8", screenings |-> << "Senior panel", "Cardiac assessment", "Skin health" >>,
       reason |-> "Senior care"] >>,
    ageSpecificAdvice |-> <<
      [ageRange |-> << 0, 2 >>,
       advice |-> << "Establish bathing routine (weekly)", "First echocardiogram by age 2", "Provide warmth - heated beds essential", "Sun protection if exposed to windows" >>],
      [ageRange |-> << 2, 6 >>,
       advice |-> << "Annual echocardiograms essential", "Maintain skin care routine", "Temperature regulation important", "High-calorie diet for heat generation" >>],
      [ageRange |-> << 6, 12 >>,
       advice |-> << "Heart monitoring continues", "Watch skin for changes", "Dental care - no whiskers to detect food", "Keep environment warm" >>],
      [ageRange |-> << 12, 15 >>,
       advice |-> << "Increased cardiac monitoring", "Extra warmth needed", "Skin may need more care", "Comfortable, heated spaces" >>] >> ]

\* Devon Rex (breed-health-data.ts lines 690-738)
devonRex ==
  [ breed |-> "Devon Rex",
    aliases |-> << "devon rex", "devon", "pixie cat" >>,
    sizeCategory |-> "small",
    lifeExpectancy |-> [min |-> 12, max |-> 15],
    idealWeight |-> [min |-> 250000, max |-> 400000],
    healthRisks |-> <<
      [condition |-> "Hereditary Myopathy", riskLevel |-> "high", onsetMonths |-> 6, onsetText |-> "0.5",
       monitoringAdvice |-> "Genetic condition causing muscle weakness. Usually apparent in kittens."],
      [condition |-> "Patellar Luxation", riskLevel |-> "moderate", onsetMonths |-> 24, onsetText |-> "2",
       monitoringAdvice |-> "Watch for limping or abnormal gait."],
      [condition |-> "Hip Dysplasia", riskLevel |-> "moderate", onsetMonths |-> 36, onsetText |-> "3",
       monitoringAdvice |-> "Monitor mobility as they age."],
      [condition |-> "Skin Sensitivity", riskLevel |-> "moderate", onsetMonths |-> 0, onsetText |-> "0",
       monitoringAdvice |-> "Curly coat can cause skin issues. Regular grooming needed."] >>,
    screeningSchedule |-> <<
      [ageMonths |-> 12, ageText |-> "1", screenings |-> << "Myopathy assessment", "Joint evaluation", "Baseline bloodwork" >>,
       reason |-> "Screen for hereditary issues"],
      [ageMonths |-> 36, ageText |-> "3", screenings |-> << "Joint assessment", "Heart check" >>,
       reason |-> "Monitor for developing issues"],
      [ageMonths |-> 84, ageText |-> "7", screenings |-> << "Full panel", "Joint evaluation" >>,
       reason |-> "Senior preparation"] >>,
    ageSpecificAdvice |-> <<
      [ageRange |-> << 0, 2 >>,
       advice |-> << "Watch for myopathy signs", "Monitor joint health", "Gentle skin care for curly coat", "High-calorie diet - high metabolism" >>],
      [ageRange |-> << 2, 6 >>,
       advice |-> << "Monitor for patella issues", "Keep weight healthy for joints", "Regular exercise appropriate for build", "Skin care routine" >>],
      [ageRange |-> << 6, 12 >>,
       advice |-> << "Joint supplements may help", "Regular health checks", "Maintain healthy weight", "Skin monitoring continues" >>],
      [ageRange |-> << 12, 15 >>,
       advice |-> << "Joint care priority", "Soft bedding", "Warmth - thin coat provides less insulation", "Regular vet visits" >>] >> ]

\* Cornish Rex (breed-health-data.ts lines 740-780)
cornishRex ==
  [ breed |-> "Cornish Rex",
    aliases |-> << "cornish rex", "cornish" >>,
    sizeCategory |-> "small",
    lifeExpectancy |-> [min |-> 12, max |-> 15],
    idealWeight |-> [min |-> 250000, max |-> 450000],
    healthRisks |-> <<
      [condition |-> "Hypotrichosis", riskLevel |-> "moderate", onsetMonths |-> 0, onsetText |-> "0",
       monitoringAdvice |-> "Some may develop bald patches. Usually cosmetic."],
      [condition |-> "Patellar Luxation", riskLevel |-> "moderate", onsetMonths |-> 24, onsetText |-> "2",
       monitoringAdvice |-> "Similar to Devon Rex. Monitor joint health."],
      [condition |-> "Hypertrophic Cardiomyopathy (HCM)", riskLevel |-> "moderate", onsetMonths |-> 60, onsetText |-> "5",
       monitoringAdvice |-> "Less common than in Sphynx but still monitor."] >>,
    screeningSchedule |-> <<
      [ageMonths |-> 24, ageText |-> "2", screenings |-> << "Joint evaluation", "Skin assessment", "Baseline bloodwork" >>,
       reason |-> "Establish baseline"],
      [ageMonths |-> 60, ageText |-> "5", screenings |-> << "Heart check", "Joint assessment" >>,
       reason |-> "Cardiac monitoring begins"],
      [ageMonths |-> 96, ageText |-> "8", screenings |-> << "Senior panel", "Full assessment" >>,
       reason |-> "Senior care"] >>,
    ageSpecificAdvice |-> <<
      [ageRange |-> << 0, 3 >>,
       advice |-> << "Monitor joint development", "High-calorie diet for high metabolism", "Warmth needed - wavy coat provides less insulation", "Gentle grooming" >>],
      [ageRange |-> << 3, 8 >>,
       advice |-> << "Keep joints healthy with appropriate exercise", "Maintain healthy weight", "Begin heart monitoring", "Skin care" >>],
      [ageRange |-> << 8, 15 >>,
       advice |-> << "Joint support", "Regular cardiac checks", "Warmth important", "Regular health monitoring" >>] >> ]

\* Scottish Fold (breed-health-data.ts lines 782-824)
scottishFold ==
  [ breed |-> "Scottish Fold",
    aliases |-> << "scottish fold", "scottish", "fold" >>,
    sizeCategory |-> "medium",
    lifeExpectancy |-> [min |-> 11, max |-> 14],
    idealWeight |-> [min |-> 300000, max |-> 600000],
    healthRisks |-> <<
      [condition |-> "Osteochondrodysplasia", riskLevel |-> "high", onsetMonths |-> 0, onsetText |-> "0",
       monitoringAdvice |-> "Genetic condition affecting all Scottish Folds. Causes arthritis and cartilage issues."],
      [condition |-> "Arthritis", riskLevel |-> "high", onsetMonths |-> 24, onsetText |-> "2",
       monitoringAdvice |-> "Develops early due to osteochondrodysplasia. Pain management essential."],
      [condition |-> "Cardiomyopathy", riskLevel |-> "moderate", onsetMonths |-> 60, onsetText |-> "5",
       monitoringAdvice |-> "Regular heart monitoring recommended."] >>,
    screeningSchedule |-> <<
      [ageMonths |-> 12, ageText |-> "1", screenings |-> << "Joint assessment", "Baseline X-rays", "Bloodwork" >>,
       reason |-> "Assess bone/joint development"],
      [ageMonths |-> 36, ageText |-> "3", screenings |-> << "Joint X-rays", "Pain assessment", "Heart check" >>,
       reason |-> "Monitor progression"],
      [ageMonths |-> 60, ageText |-> "5", screenings |-> << "Full joint evaluation", "Cardiac screening", "Pain management review" >>,
       reason |-> "Ongoing care"],
      [ageMonths |-> 96, ageText |-> "8", screenings |-> << "Comprehensive assessment", "Pain management" >>,
       reason |-> "Senior care"] >>,
    ageSpecificAdvice |-> <<
      [ageRange |-> << 0, 2 >>,
       advice |-> << "X-rays to assess bone development", "Soft bedding essential", "Low-impact play", "Watch for early stiffness signs" >>],
      [ageRange |-> << 2, 5 >>,
       advice |-> << "Joint supplements from early age", "Maintain healthy weight - critical for joints", "Pain medication if needed", "Accessible litter boxes and food" >>],
      [ageRange |-> << 5, 10 >>,
       advice |-> << "Pain management review regularly", "Heated beds can help", "Gentle handling", "Monitor mobility closely" >>],
      [ageRange |-> << 10, 14 >>,
       advice |-> << "Focus on comfort and pain control", "Easy access to everything", "Regular pain assessments", "Consider mobility aids" >>] >> ]

\* Birman (breed-health-data.ts lines 826-866)
birman ==
  [ breed |-> "Birman",
    aliases |-> << "birman", "sacred cat of burma" >>,
    sizeCategory |-> "medium",
    lifeExpectancy |-> [min |-> 12, max |-> 16],
    idealWeight |-> [min |-> 350000, max |-> 600000],
    healthRisks |-> <<
      [condition |-> "Hypertrophic Cardiomyopathy (HCM)", riskLevel |-> "moderate", onsetMonths |-> 60, onsetText |-> "5",
       monitoringAdvice |-> "Annual cardiac screening after age 4."],
      [condition |-> "Renal Disease", riskLevel |-> "moderate", onsetMonths |-> 96, onsetText |-> "8",
       monitoringAdvice |-> "Monitor kidney function from middle age."],
      [condition |-> "Feline Hyperesthesia Syndrome", riskLevel |-> "low", onsetMonths |-> 12, onsetText |-> "1",
       monitoringAdvice |-> "Watch for skin rippling and excessive grooming."] >>,
    screeningSchedule |-> <<
      [ageMonths |-> 24, ageText |-> "2", screenings |-> << "Baseline bloodwork", "General health check" >>,
       reason |-> "Establish baseline"],
      [ageMonths |-> 60, ageText |-> "5", screenings |-> << "Echocardiogram", "Kidney panel" >>,
       reason |-> "Begin cardiac/renal monitoring"],
      [ageMonths |-> 96, ageText |-> "8", screenings |-> << "Full senior panel", "Heart check", "Kidney function" >>,
       reason |-> "Senior preparation"] >>,
    ageSpecificAdvice |-> <<
      [ageRange |-> << 0, 3 >>,
       advice |-> << "Regular grooming for silky coat", "Gentle socialization", "Establish health baseline", "Watch for hyperesthesia signs" >>],
      [ageRange |-> << 3, 8 >>,
       advice |-> << "Begin cardiac screening at 5", "Monitor kidney function", "Maintain grooming routine", "Keep stress low" >>],
      [ageRange |-> << 8, 16 >>,
       advice |-> << "Regular cardiac and kidney checks", "Comfortable environment", "Continue gentle grooming", "Monitor for age-related changes" >>] >> ]

\* Turkish Angora (breed-health-data.ts lines 868-909)
turkishAngora ==
  [ breed |-> "Turkish Angora",
    aliases |-> << "turkish angora", "angora" >>,
    sizeCategory |-> "medium",
    lifeExpectancy |-> [min |-> 12, max |-> 18],
    idealWeight |-> [min |-> 300000, max |-> 500000],
    healthRisks |-> <<
      [condition |-> "Deafness (White Cats)", riskLevel |-> "high", onsetMonths |-> 0, onsetText |-> "0",
       monitoringAdvice |-> "White Turkish Angoras, especially with blue eyes, often deaf. BAER test available."],
      [condition |-> "Ataxia", riskLevel |-> "moderate", onsetMonths |-> 6, onsetText |-> "0.5",
       monitoringAdvice |-> "Hereditary condition affecting coordination. Usually apparent in kittens."],
      [condition |-> "Hypertrophic Cardiomyopathy (HCM)", riskLevel |-> "moderate", onsetMonths |-> 60, onsetText |-> "5",
       monitoringAdvice |-> "Annual heart screening from age 4."] >>,
    screeningSchedule |-> <<
      [ageMonths |-> 6, ageText |-> "0.5", screenings |-> << "BAER hearing test (white cats)", "Neurological assessment" >>,
       reason |-> "Screen for deafness and ataxia"],
      [ageMonths |-> 48, ageText |-> "4", screenings |-> << "Echocardiogram", "General health check" >>,
       reason |-> "Begin cardiac monitoring"],
      [ageMonths |-> 96, ageText |-> "8", screenings |-> << "Heart check", "Senior panel" >>,
       reason |-> "Senior care"] >>,
    ageSpecificAdvice |-> <<
      [ageRange |-> << 0, 2 >>,
       advice |-> << "BAER test for white cats", "Monitor for ataxia signs", "Establish grooming routine for long coat", "Indoor-only recommended for deaf cats" >>],
      [ageRange |-> << 2, 6 >>,
       advice |-> << "Very active breed - provide lots of play", "Begin cardiac monitoring at 4", "Keep coat well-groomed", "Mental stimulation important" >>],
      [ageRange |-> << 6, 12 >>,
       advice |-> << "Regular heart checks", "Maintain activity level", "Grooming routine continues", "Watch for any mobility changes" >>],
      [ageRange |-> << 12, 18 >>,
       advice |-> << "Turkish Angoras can live very long", "Regular monitoring", "Comfort-focused care", "Gentle grooming" >>] >> ]

\* Himalayan (breed-health-data.ts lines 911-951)
himalayan ==
  [ breed |-> "Himalayan",
    aliases |-> << "himalayan", "himmie", "colorpoint persian" >>,
    sizeCategory |-> "medium",
    lifeExpectancy |-> [min |-> 12, max |-> 15],
    idealWeight |-> [min |-> 350000, max |-> 550000],
    healthRisks |-> <<
      [condition |-> "Polycystic Kidney Disease (PKD)", riskLevel |-> "high", onsetMonths |-> 84, onsetText |-> "7",
       monitoringAdvice |-> "Same as Persian - genetic test and ultrasound essential."],
      [condition |-> "Brachycephalic Airway Syndrome", riskLevel |-> "high", onsetMonths |-> 0, onsetText |-> "0",
       monitoringAdvice |-> "Flat face causes breathing issues. Avoid heat and stress."],
      [condition |-> "Progressive Retinal Atrophy (PRA)", riskLevel |-> "moderate", onsetMonths |-> 48, onsetText |-> "4",
       monitoringAdvice |-> "Annual eye exams recommended."] >>,
    screeningSchedule |-> <<
      [ageMonths |-> 12, ageText |-> "1", screenings |-> << "PKD genetic test", "Eye exam", "Baseline bloodwork" >>,
       reason |-> "Genetic screening"],
      [ageMonths |-> 48, ageText |-> "4", screenings |-> << "Kidney ultrasound", "Eye exam" >>,
       reason |-> "PKD monitoring"],
      [ageMonths |-> 84, ageText |-> "7", screenings |-> << "Full panel", "Kidney function", "Eye exam" >>,
       reason |-> "Senior preparation"] >>,
    ageSpecificAdvice |-> <<
      [ageRange |-> << 0, 3 >>,
       advice |-> << "Keep environment cool", "Establish daily grooming routine", "PKD genetic test", "Monitor breathing" >>],
      [ageRange |-> << 3, 7 >>,
       advice |-> << "Begin kidney screening", "Annual eye exams", "Maintain grooming", "Climate control important" >>],
      [ageRange |-> << 7, 15 >>,
       advice |-> << "Regular kidney monitoring", "Keep stress low", "Comfortable environment", "Gentle care routine" >>] >> ]

\* Domestic Shorthair (breed-health-data.ts lines 957-1006)
domesticShorthair ==
  [ breed |-> "Domestic Shorthair",
    aliases |-> << "domestic shorthair", "dsh", "house cat", "moggy", "mixed breed", "tabby", "mixed" >>,
    sizeCategory |-> "medium",
    lifeExpectancy |-> [min |-> 12, max |-> 20],
    idealWeight |-> [min |-> 350000, max |-> 550000],
    healthRisks |-> <<
      [condition |-> "Obesity", riskLevel |-> "moderate", onsetMonths |-> 36, onsetText |-> "3",
       monitoringAdvice |-> "Very common in pet cats. Portion control and regular exercise essential."],
      [condition |-> "Dental Disease", riskLevel |-> "moderate", onsetMonths |-> 36, onsetText |-> "3",
       monitoringAdvice |-> "Common in all cats. Annual dental exams recommended."],
      [condition |-> "Diabetes", riskLevel |-> "moderate", onsetMonths |-> 96, onsetText |-> "8",
       monitoringAdvice |-> "Often linked to obesity. Weight management is key."],
      [condition |-> "Kidney Disease", riskLevel |-> "moderate", onsetMonths |-> 120, onsetText |-> "10",
       monitoringAdvice |-> "Common in senior cats. Regular bloodwork after age 7."] >>,
    screeningSchedule |-> <<
      [ageMonths |-> 12, ageText |-> "1", screenings |-> << "Baseline bloodwork", "Dental exam", "Weight assessment" >>,
       reason |-> "Establish baseline"],
      [ageMonths |-> 60, ageText |-> "5", screenings |-> << "Full bloodwork", "Dental assessment", "Weight check" >>,
       reason |-> "Middle-age check"],
      [ageMonths |-> 84, ageText |-> "7", screenings |-> << "Senior bloodwork including kidney/thyroid", "Dental care" >>,
       reason |-> "Begin senior monitoring"],
      [ageMonths |-> 120, ageText |-> "10", screenings |-> << "Bi-annual senior panels", "Complete assessment" >>,
       reason |-> "Senior care intensifies"] >>,
    ageSpecificAdvice |-> <<
      [ageRange |-> << 0, 2 >>,
       advice |-> << "Spay/neuter if not done", "Establish feeding routine and portions", "Complete vaccinations", "Regular play for healthy development" >>],
      [ageRange |-> << 2, 7 >>,
       advice |-> << "Annual checkups", "Maintain healthy weight", "Dental care important", "Keep mentally and physically active" >>],
      [ageRange |-> << 7, 12 >>,
       advice |-> << "Switch to bi-annual vet visits", "Monitor for diabetes and kidney disease", "Adjust diet as needed", "Watch for arthritis signs" >>],
      [ageRange |-> << 12, 20 >>,
       advice |-> << "Regular bloodwork monitoring", "Comfort and quality of life focus", "Easy access to resources", "Watch for cognitive changes" >>] >> ]

\* Domestic Longhair (breed-health-data.ts lines 1008-1057)
domesticLonghair ==
  [ breed |-> "Domestic Longhair",
    aliases |-> << "domestic longhair", "dlh", "long-haired cat", "longhair" >>,
    sizeCategory |-> "medium",
    lifeExpectancy |-> [min |-> 12, max |-> 18],
    idealWeight |-> [min |-> 350000, max |-> 600000],
    healthRisks |-> <<
      [condition |-> "Hairballs", riskLevel |-> "moderate", onsetMonths |-> 12, onsetText |-> "1",
       monitoringAdvice |-> "Long coat leads to more hairballs. Regular grooming and hairball remedies help."],
      [condition |-> "Matted Fur", riskLevel |-> "moderate", onsetMonths |-> 0, onsetText |-> "0",
       monitoringAdvice |-> "Regular grooming essential. Mats can cause skin issues."],
      [condition |-> "Obesity", riskLevel |-> "moderate", onsetMonths |-> 36, onsetText |-> "3",
       monitoringAdvice |-> "Same as DSH. Long fur can hide weight gain."],
      [condition |-> "Kidney Disease", riskLevel |-> "moderate", onsetMonths |-> 120, onsetText |-> "10",
       monitoringAdvice |-> "Common in senior cats."] >>,
    screeningSchedule |-> <<
      [ageMonths |-> 12, ageText |-> "1", screenings |-> << "Baseline bloodwork", "Coat/skin assessment" >>,
       reason |-> "Establish baseline"],
      [ageMonths |-> 60, ageText |-> "5", screenings |-> << "Full bloodwork", "Weight check" >>,
       reason |-> "Middle-age check"],
      [ageMonths |-> 84, ageText |-> "7", screenings |-> << "Senior panel", "Thyroid check" >>,
       reason |-> "Senior monitoring begins"],
      [ageMonths |-> 120, ageText |-> "10", screenings |-> << "Bi-annual senior panels" >>,
       reason |-> "Senior care"] >>,
    ageSpecificAdvice |-> <<
      [ageRange |-> << 0, 2 >>,
       advice |-> << "Establish daily grooming routine early", "Train to accept brushing", "Hairball prevention diet/treats", "Regular play" >>],
      [ageRange |-> << 2, 7 >>,
       advice |-> << "Maintain grooming routine", "Monitor weight under the fluff", "Dental care", "Annual checkups" >>],
      [ageRange |-> << 7, 12 >>,
       advice |-> << "May need grooming help as they age", "Regular senior bloodwork", "Watch for mobility affecting self-grooming", "Hairball management continues" >>],
      [ageRange |-> << 12, 18 >>,
       advice |-> << "Assist with grooming if needed", "Regular health monitoring", "Comfort-focused care", "Watch for matting in hard-to-reach areas" >>] >> ]

\* Tuxedo (breed-health-data.ts lines 1059-1071)
tuxedo ==
  [ breed |-> "Tuxedo",
    aliases |-> << "tuxedo", "tuxedo cat", "black and white" >>,
    sizeCategory |-> "medium",
    lifeExpectancy |-> [min |-> 12, max |-> 20],
    idealWeight |-> [min |-> 350000, max |-> 550000],
    healthRisks |-> domesticShorthair.healthRisks,
    screeningSchedule |-> domesticShorthair.screeningSchedule,
    ageSpecificAdvice |-> domesticShorthair.ageSpecificAdvice ]

\* Calico (breed-health-data.ts lines 1073-1092)
calico ==
  [ breed |-> "Calico",
    aliases |-> << "calico", "calico cat", "tricolor" >>,
    sizeCategory |-> "medium",
    lifeExpectancy |-> [min |-> 12, max |-> 18],
    idealWeight |-> [min |-> 350000, max |-> 550000],
    healthRisks |-> domesticShorthair.healthRisks \o <<
      [condition |-> "Klinefelter Syndrome (Male Calicos)", riskLevel |-> "high", onsetMonths |-> 0, onsetText |-> "0",
       monitoringAdvice |-> "Male calicos are extremely rare and have XXY chromosomes. Often have health issues."] >>,
    screeningSchedule |-> domesticShorthair.screeningSchedule,
    ageSpecificAdvice |-> domesticShorthair.ageSpecificAdvice ]

\* Tabby (breed-health-data.ts lines 1094-1104)
tabby ==
  [ breed |-> "Tabby",
    aliases |-> << "tabby", "tabby cat", "striped cat", "tiger cat" >>,
    sizeCategory |-> "medium",
    lifeExpectancy |-> [min |-> 12, max |-> 20],
    idealWeight |-> [min |-> 350000, max |-> 550000],
    healthRisks |-> domesticShorthair.healthRisks,
    screeningSchedule |-> domesticShorthair.screeningSchedule,
    ageSpecificAdvice |-> domesticShorthair.ageSpecificAdvice ]

\* American Shorthair (breed-health-data.ts lines 1108-1142)
americanShorthair ==
  [ breed |-> "American Shorthair",
    aliases |-> << "american shorthair", "ash" >>,
    sizeCategory |-> "medium",
    lifeExpectancy |-> [min |-> 15, max |-> 20],
    idealWeight |-> [min |-> 400000, max |-> 600000],
    healthRisks |-> <<
      [condition |-> "Hypertrophic Cardiomyopathy (HCM)", riskLevel |-> "moderate", onsetMonths |-> 60, onsetText |-> "5",
       monitoringAdvice |-> "Annual heart screening from age 4."],
      [condition |-> "Obesity", riskLevel |-> "moderate", onsetMonths |-> 36, onsetText |-> "3",
       monitoringAdvice |-> "Muscular breed that can become overweight. Portion control needed."] >>,
    screeningSchedule |-> <<
      [ageMonths |-> 24, ageText |-> "2", screenings |-> << "Baseline bloodwork", "Weight assessment" >>,
       reason |-> "Establish baseline"],
      [ageMonths |-> 60, ageText |-> "5", screenings |-> << "Echocardiogram", "Full panel" >>,
       reason |-> "Cardiac monitoring"],
      [ageMonths |-> 96, ageText |-> "8", screenings |-> << "Senior panel", "Heart check" >>,
       reason |-> "Senior care"] >>,
    ageSpecificAdvice |-> <<
      [ageRange |-> << 0, 3 >>,
       advice |-> << "Establish portion control", "Regular play sessions", "Annual checkups" >>],
      [ageRange |-> << 3, 8 >>,
       advice |-> << "Monitor weight", "Begin cardiac screening", "Maintain activity" >>],
      [ageRange |-> << 8, 15 >>,
       advice |-> << "Regular heart monitoring", "Joint support if needed", "Weight management continues" >>],
      [ageRange |-> << 15, 20 >>,
       advice |-> << "Very long-lived breed", "Regular monitoring", "Comfort-focused care" >>] >> ]

\* Manx (breed-health-data.ts lines 1144-1184)
manx ==
  [ breed |-> "Manx",
    aliases |-> << "manx", "manx cat", "tailless cat" >>,
    sizeCategory |-> "medium",
    lifeExpectancy |-> [min |-> 12, max |-> 14],
    idealWeight |-> [min |-> 350000, max |-> 550000],
    healthRisks |-> <<
      [condition |-> "Manx Syndrome", riskLevel |-> "high", onsetMonths |-> 0, onsetText |-> "0",
       monitoringAdvice |-> "Spinal defects from the tailless gene. Can affect bowel/bladder control."],
      [condition |-> "Arthritis", riskLevel |-> "moderate", onsetMonths |-> 60, onsetText |-> "5",
       monitoringAdvice |-> "Spine issues can lead to early arthritis."],
      [condition |-> "Corneal Dystrophy", riskLevel |-> "moderate", onsetMonths |-> 48, onsetText |-> "4",
       monitoringAdvice |-> "Annual eye exams recommended."] >>,
    screeningSchedule |-> <<
      [ageMonths |-> 6, ageText |-> "0.5", screenings |-> << "Spinal assessment", "Neurological evaluation" >>,
       reason |-> "Screen for Manx syndrome"],
      [ageMonths |-> 36, ageText |-> "3", screenings |-> << "X-rays if needed", "Eye exam" >>,
       reason |-> "Ongoing monitoring"],
      [ageMonths |-> 72, ageText |-> "6", screenings |-> << "Full assessment", "Pain evaluation", "Eye exam" >>,
       reason |-> "Monitor for arthritis"] >>,
    ageSpecificAdvice |-> <<
      [ageRange |-> << 0, 2 >>,
       advice |-> << "Thorough evaluation for Manx syndrome", "Monitor bowel/bladder function", "Gentle exercise appropriate", "Watch for hind leg issues" >>],
      [ageRange |-> << 2, 7 >>,
       advice |-> << "Monitor for early arthritis", "Keep weight healthy for spine", "Regular eye exams", "Appropriate exercise levels" >>],
      [ageRange |-> << 7, 14 >>,
       advice |-> << "Pain management as needed", "Soft bedding important", "Easy access to litter box", "Regular monitoring" >>] >> ]

\* Ragamuffin (breed-health-data.ts lines 1186-1219)
ragamuffin ==
  [ breed |-> "Ragamuffin",
    aliases |-> << "ragamuffin", "raga muffin" >>,
    sizeCategory |-> "large",
    lifeExpectancy |-> [min |-> 12, max |-> 16],
    idealWeight |-> [min |-> 450000, max |-> 900000],
    healthRisks |-> <<
      [condition |-> "Hypertrophic Cardiomyopathy (HCM)", riskLevel |-> "moderate", onsetMonths |-> 60, onsetText |-> "5",
       monitoringAdvice |-> "Related to Ragdoll - similar cardiac risks."],
      [condition |-> "Polycystic Kidney Disease (PKD)", riskLevel |-> "moderate", onsetMonths |-> 84, onsetText |-> "7",
       monitoringAdvice |-> "Some PKD present in breeding lines. Ultrasound screening recommended."] >>,
    screeningSchedule |-> <<
      [ageMonths |-> 24, ageText |-> "2", screenings |-> << "Baseline bloodwork", "Heart check" >>,
       reason |-> "Establish baseline"],
      [ageMonths |-> 60, ageText |-> "5", screenings |-> << "Echocardiogram", "Kidney ultrasound" >>,
       reason |-> "Begin monitoring"],
      [ageMonths |-> 96, ageText |-> "8", screenings |-> << "Full senior panel", "Cardiac/renal check" >>,
       reason |-> "Senior care"] >>,
    ageSpecificAdvice |-> <<
      [ageRange |-> << 0, 3 >>,
       advice |-> << "Support healthy growth - large breed", "Regular grooming", "Socialize well", "Establish vet relationship" >>],
      [ageRange |-> << 3, 8 >>,
       advice |-> << "Begin cardiac screening", "Monitor kidney health", "Maintain coat with regular grooming", "Keep active for weight management" >>],
      [ageRange |-> << 8, 16 >>,
       advice |-> << "Regular heart and kidney monitoring", "Joint support for large frame", "Continue grooming assistance", "Comfort-focused care" >>] >> ]

\* Somali (breed-health-data.ts lines 1221-1238)
somali ==
  [ breed |-> "Somali",
    aliases |-> << "somali", "somali cat", "longhaired abyssinian" >>,
    sizeCategory |-> "medium",
    lifeExpectancy |-> [min |-> 12, max |-> 16],
    idealWeight |-> [min |-> 300000, max |-> 500000],
    healthRisks |-> abyssinian.healthRisks,
    screeningSchedule |-> abyssinian.screeningSchedule,
    ageSpecificAdvice |-> <<
      [ageRange |-> << 0, 2 >>,
       advice |-> << "Complete genetic testing (same as Aby)", "Establish grooming routine for long coat", "Provide lots of activity", "High-quality protein diet" >>],
      [ageRange |-> << 2, 5 >>,
       advice |-> << "Establish kidney function baseline", "Regular grooming", "Eye exams for PRA", "Keep active and stimulated" >>],
      [ageRange |-> << 5, 10 >>,
       advice |-> << "Regular kidney monitoring crucial", "Consider kidney-supportive diet", "Maintain grooming", "Continue active lifestyle" >>],
      [ageRange |-> << 10, 16 >>,
       advice |-> << "Intensive kidney monitoring", "May need grooming help", "Joint support if needed", "Regular comprehensive checks" >>] >> ]

\* Chartreux (breed-health-data.ts lines 1240-1273)
chartreux ==
  [ breed |-> "Chartreux",
    aliases |-> << "chartreux" >>,
    sizeCategory |-> "medium",
    lifeExpectancy |-> [min |-> 12, max |-> 15],
    idealWeight |-> [min |-> 400000, max |-> 700000],
    healthRisks |-> <<
      [condition |-> "Patellar Luxation", riskLevel |-> "moderate", onsetMonths |-> 24, onsetText |-> "2",
       monitoringAdvice |-> "Watch for limping or unusual gait."],
      [condition |-> "Polycystic Kidney Disease (PKD)", riskLevel |-> "low", onsetMonths |-> 84, onsetText |-> "7",
       monitoringAdvice |-> "Less common but can occur. Monitor kidney function in seniors."] >>,
    screeningSchedule |-> <<
      [ageMonths |-> 24, ageText |-> "2", screenings |-> << "Joint assessment", "Baseline bloodwork" >>,
       reason |-> "Establish baseline"],
      [ageMonths |-> 60, ageText |-> "5", screenings |-> << "Full bloodwork", "Joint check" >>,
       reason |-> "Middle age monitoring"],
      [ageMonths |-> 96, ageText |-> "8", screenings |-> << "Senior panel", "Kidney function" >>,
       reason |-> "Senior care"] >>,
    ageSpecificAdvice |-> <<
      [ageRange |-> << 0, 3 >>,
       advice |-> << "Monitor joint health", "Maintain healthy weight", "Regular play", "Establish brushing routine for dense coat" >>],
      [ageRange |-> << 3, 8 >>,
       advice |-> << "Regular checkups", "Watch for patella issues", "Keep active", "Coat care" >>],
      [ageRange |-> << 8, 15 >>,
       advice |-> << "Joint support if needed", "Regular bloodwork", "Continue coat care", "Monitor kidney function" >>] >> ]
\* BREED_HEALTH_DATABASE, in the order of the array literal
BREED_HEALTH_DATABASE ==
  << maineCoon, ragdoll, norwegianForest, britishShorthair, savannah, ragamuffin,
     persian, bengal, siamese, abyssinian, exoticShorthair, burmese,
     orientalShorthair, russianBlue, scottishFold, birman, turkishAngora,
     himalayan, americanShorthair, manx, somali, chartreux,
     sphynx, devonRex, cornishRex,
     domesticShorthair, domesticLonghair, tuxedo, calico, tabby >>

\* String.prototype.toLowerCase().trim() on the strings the model uses: the
\* canonical breed names and the breed inputs of the model.  Every other
\* string of the model (the aliases, the fallback keys) is already lower-case
\* and trimmed, for which the conversion is the identity.
ToLowerTrim(s) ==
  CASE s = "Maine Coon" -> "maine coon"
    [] s = "Ragdoll" -> "ragdoll"
    [] s = "Norwegian Forest Cat" -> "norwegian forest cat"
    [] s = "British Shorthair" -> "british shorthair"
    [] s = "Savannah" -> "savannah"
    [] s = "Ragamuffin" -> "ragamuffin"
    [] s = "Persian" -> "persian"
    [] s = "Bengal" -> "bengal"
    [] s = "Siamese" -> "siamese"
    [] s = "Abyssinian" -> "abyssinian"
    [] s = "Exotic Shorthair" -> "exotic shorthair"
    [] s = "Burmese" -> "burmese"
    [] s = "Oriental Shorthair" -> "oriental shorthair"
    [] s = "Russian Blue" -> "russian blue"
    [] s = "Scottish Fold" -> "scottish fold"
    [] s = "Birman" -> "birman"
    [] s = "Turkish Angora" -> "turkish angora"
    [] s = "Himalayan" -> "himalayan"
    [] s = "American Shorthair" -> "american shorthair"
    [] s = "Manx" -> "manx"
    [] s = "Somali" -> "somali"
    [] s = "Chartreux" -> "chartreux"
    [] s = "Sphynx" -> "sphynx"
    [] s = "Devon Rex" -> "devon rex"
    [] s = "Cornish Rex" -> "cornish rex"
    [] s = "Domestic Shorthair" -> "domestic shorthair"
    [] s = "Domestic Longhair" -> "domestic longhair"
    [] s = "Tuxedo" -> "tuxedo"
    [] s = "Calico" -> "calico"
    [] s = "Tabby" -> "tabby"
    [] s = "MAINE COON" -> "maine coon"
    [] s = " Siamese " -> "siamese"
    [] s = "Xyzzycat" -> "xyzzycat"
    [] s = "   " -> ""
    [] OTHER -> s

\* findBreedProfile: the first profile of the database whose lower-cased name
\* or one of whose aliases equals the normalised input; Domestic Shorthair
\* for null, for "" and when nothing matches.
ProfileMatches(profile, normalized) ==
  \/ ToLowerTrim(profile.breed) = normalized
  \/ \E i \in 1..Len(profile.aliases) : ToLowerTrim(profile.aliases[i]) = normalized

\* findBreedProfile without the  || domesticShorthair  after the search
findBreedProfileOrNull(breedName) ==
  IF IsNull(breedName) \/ breedName = Some("") THEN domesticShorthair
  ELSE LET normalized == ToLowerTrim(breedName[1])
           hits == { i \in 1..Len(BREED_HEALTH_DATABASE) :
                       ProfileMatches(BREED_HEALTH_DATABASE[i], normalized) }
       IN  IF hits = {} THEN None
           ELSE BREED_HEALTH_DATABASE[CHOOSE i \in hits : \A j \in hits : i <= j]

findBreedProfile(breedName) ==
  IF IsNull(breedName) \/ breedName = Some("") THEN domesticShorthair
  ELSE LET normalized == ToLowerTrim(breedName[1])
           hits == { i \in 1..Len(BREED_HEALTH_DATABASE) :
                       ProfileMatches(BREED_HEALTH_DATABASE[i], normalized) }
       IN  IF hits = {} THEN domesticShorthair
           ELSE BREED_HEALTH_DATABASE[CHOOSE i \in hits : \A j \in hits : i <= j]

\* getHealthRisksForAge: typicalOnsetYears <= ageYears + 2
getHealthRisksForAge(profile, ageYears) ==
  SelectSeq(profile.healthRisks, LAMBDA risk : risk.onsetMonths <= (ageYears + 2) * 12)

\* getAgeSpecificAdvice: the first band with lo <= ageYears < hi, or null
getAgeSpecificAdvice(profile, ageYears) ==
  LET hits == { i \in 1..Len(profile.ageSpecificAdvice) :
                  /\ ageYears >= profile.ageSpecificAdvice[i].ageRange[1]
                  /\ ageYears < profile.ageSpecificAdvice[i].ageRange[2] }
  IN  IF hits = {} THEN None
      ELSE Some(profile.ageSpecificAdvice[CHOOSE i \in hits : \A j \in hits : i <= j])

-----------------------------------------------------------------------------
(* Weight & Status Model: page.tsx 502-717 *)

FALLBACK_WEIGHT_RANGES ==
  [ small   |-> [min |-> 250000, max |-> 400000],
    medium  |-> [min |-> 400000, max |-> 550000],
    large   |-> [min |-> 550000, max |-> 800000],
    default |-> [min |-> 350000, max |-> 550000] ]

FALLBACK_BREED_SIZES ==
  ( "maine coon" :> "large" ) @@ ( "ragdoll" :> "large" ) @@
  ( "norwegian forest" :> "large" ) @@ ( "british shorthair" :> "large" ) @@
  ( "savannah" :> "large" ) @@ ( "bengal" :> "medium" ) @@
  ( "persian" :> "medium" ) @@ ( "siamese" :> "small" ) @@
  ( "abyssinian" :> "small" ) @@ ( "devon rex" :> "small" ) @@
  ( "cornish rex" :> "small" ) @@ ( "sphynx" :> "small" ) @@
  ( "domestic shorthair" :> "medium" ) @@ ( "domestic longhair" :> "medium" ) @@
  ( "tabby" :> "medium" ) @@ ( "tuxedo" :> "medium" ) @@
  ( "calico" :> "medium" ) @@ ( "default" :> "medium" )

\* LIFE_STAGES[stage].end, in months
LIFE_STAGES ==
  [ kitten |-> 12, youngAdult |-> 36, adult |-> 120, senior |-> 180, geriatric |-> 240 ]

\* FALLBACK_BREED_SIZES[normalizedBreed] || "default".  The table is a plain
\* object literal, so a key it inherits from Object.prototype ("constructor",
\* "__proto__") reads as a truthy value that is no size name.
FallbackSize(normalizedBreed) ==
  IF normalizedBreed \in DOMAIN FALLBACK_BREED_SIZES
    THEN FALLBACK_BREED_SIZES[normalizedBreed]
  ELSE IF normalizedBreed \in { "constructor", "__proto__" } THEN "[inherited]"
  ELSE "default"

\* getIdealWeightRange; << >> is JavaScript's undefined
\* (FALLBACK_WEIGHT_RANGES[size] for a size that is no key of the table).
getIdealWeightRange(breed) ==
  LET breedProfile == findBreedProfile(breed)
  IN  IF breedProfile.breed # "Domestic Shorthair" THEN breedProfile.idealWeight
      ELSE IF IsNull(breed) \/ breed = Some("") THEN FALLBACK_WEIGHT_RANGES.default
      ELSE LET size == FallbackSize(ToLowerTrim(breed[1]))
           IN  IF size \in DOMAIN FALLBACK_WEIGHT_RANGES
                 THEN FALLBACK_WEIGHT_RANGES[size]
                 ELSE << >>

\* (idealRange.min + idealRange.max) / 2
MidIdeal(idealRange) == (idealRange.min + idealRange.max) \div 2

\* calculateCalorieProxy, in units of 0.00001.  currentWeight is a parameter
\* the code never reads.
calculateCalorieProxy(careRoutine, indoorOutdoor, weight, idealWeight) ==
  LET foodOz == Coalesce(careRoutine.foodAmountOzPerDay, 350000)
      idealFoodOz == (idealWeight * 11) \div 10           \* (idealWeight * 2.2) * 0.5
      treats == Coalesce(careRoutine.treatsPerDay, 2)
      playMinutes == Coalesce(careRoutine.playMinutesPerDay, 15)
      lifestyle == IF indoorOutdoor = Some("indoor") THEN 5000
                   ELSE IF indoorOutdoor \in { Some("outdoor"), Some("mixed") } THEN -5000
                   ELSE 0
      food == IF careRoutine.foodType \in { Some("wet"), Some("raw") } THEN -2000
              ELSE IF careRoutine.foodType = Some("dry") THEN 2000
              ELSE 0
  IN  ((foodOz - idealFoodOz) \div 10) + treats * 2000 - playMinutes * 1000
        + lifestyle + food

\* The status the weight deviation alone gives: deviation =
\* |weight - midIdeal| / midIdeal against 0.1, 0.2 and 0.35, compared
\* without dividing.
BaseStatus(weight, idealRange) ==
  LET midIdeal == MidIdeal(idealRange)
      dev100 == Abs(weight - midIdeal) * 100
  IN  IF dev100 < 10 * midIdeal THEN "thriving"
      ELSE IF dev100 < 20 * midIdeal THEN "ok"
      ELSE IF dev100 < 35 * midIdeal THEN "risky"
      ELSE "unhealthy"

\* VetAdjust that starts in old age
VetAdjustInOldAge(status, vetVisits, ageMonths) ==
  IF vetVisits = 0 /\ ageMonths > LIFE_STAGES.senior
    THEN (IF status = "thriving" THEN "ok" ELSE IF status = "ok" THEN "risky" ELSE status)
    ELSE status

\* if (vetVisits === 0 && ageMonths > 24) thriving -> ok, ok -> risky
VetAdjust(status, vetVisits, ageMonths) ==
  IF vetVisits = 0 /\ ageMonths > 24
    THEN (IF status = "thriving" THEN "ok" ELSE IF status = "ok" THEN "risky" ELSE status)
    ELSE status

\* SeniorAdjust without the test for unhealthy
SeniorAdjustAlsoUnhealthy(status, vetVisits, ageMonths) ==
  IF ageMonths > LIFE_STAGES.senior /\ vetVisits < 1
    THEN (IF status = "thriving" THEN "ok" ELSE "risky")
    ELSE status

\* if (ageMonths > LIFE_STAGES.senior.end) and vetVisits < 1 and not unhealthy:
\* thriving -> ok, anything else -> risky
SeniorAdjust(status, vetVisits, ageMonths) ==
  IF ageMonths > LIFE_STAGES.senior /\ vetVisits < 1 /\ status # "unhealthy"
    THEN (IF status = "thriving" THEN "ok" ELSE "risky")
    ELSE status

\* ConditionAdjust that still applies with two vet visits
ConditionAdjustUpToTwo(status, vetVisits, hasKnownConditions) ==
  IF hasKnownConditions /\ vetVisits <= 2 /\ status = "thriving" THEN "ok" ELSE status

\* if (hasKnownConditions) and vetVisits < 2: thriving -> ok
ConditionAdjust(status, vetVisits, hasKnownConditions) ==
  IF hasKnownConditions /\ vetVisits < 2 /\ status = "thriving" THEN "ok" ELSE status

determineHealthStatus(weight, idealRange, vetVisitsPerYear, ageMonths, hasKnownConditions) ==
  LET vetVisits == Coalesce(vetVisitsPerYear, 0)
      s0 == BaseStatus(weight, idealRange)
      s1 == VetAdjust(s0, vetVisits, ageMonths)
      s2 == SeniorAdjust(s1, vetVisits, ageMonths)
  IN  ConditionAdjust(s2, vetVisits, hasKnownConditions)

getLifeStage(ageMonths) ==
  IF ageMonths < LIFE_STAGES.kitten THEN "kitten"
  ELSE IF ageMonths < LIFE_STAGES.youngAdult THEN "young adult"
  ELSE IF ageMonths < LIFE_STAGES.adult THEN "adult"
  ELSE IF ageMonths < LIFE_STAGES.senior THEN "senior"
  ELSE "geriatric"

\* catProfile.name || "Your cat"
CatName(catProfile) ==
  IF IsNull(catProfile.name) \/ catProfile.name = Some("") THEN "Your cat"
  ELSE catProfile.name[1]

\* generateNotes: always a non-empty sentence
generateNotes(ageMonths, weight, status, idealRange, catName) ==
  LET ageYears == ageMonths \div 12
      lifeStage == getLifeStage(ageMonths)
      isOverweight == weight > idealRange.max
      isUnderweight == weight < idealRange.min
      note == "At age " \o ToString(ageYears) \o ", " \o catName \o " is a "
                \o lifeStage \o ". "
  IN  IF status = "thriving"
        THEN note \o "Weight is in a healthy range and care routine looks great!"
      ELSE IF status = "ok"
        THEN (IF isOverweight
                THEN note \o "Weight is slightly above ideal. A bit more playtime could help."
              ELSE IF isUnderweight
                THEN note \o "Weight is slightly below ideal. Consider consulting your vet."
              ELSE note \o "Overall health is stable, but there's room for improvement.")
      ELSE IF status = "risky"
        THEN (IF isOverweight
                THEN note \o "Weight is becoming a concern. Consider reducing treats and increasing activity."
              ELSE IF isUnderweight
                THEN note \o "Weight is low. Please check with your vet to rule out health issues."
              ELSE note \o "Some health indicators suggest closer attention is needed.")
      ELSE note \o "Health needs attention. Please schedule a vet visit soon."

-----------------------------------------------------------------------------
(* Alert Generator: page.tsx 726-830 *)

getLifeStageRecommendation(ageMonths, careRoutine) ==
  IF ageMonths = 12
    THEN "Transition to adult food if you haven't already. Keep up the play sessions!"
  ELSE IF ageMonths = 84
    THEN "Consider more frequent vet checkups and monitor for any behavior changes."
  ELSE IF ageMonths = 120
    THEN "Switch to senior cat food, increase vet visits to twice yearly, and watch for mobility issues."
  ELSE IF ageMonths = 180
    THEN "Focus on comfort and quality of life. Consider joint supplements and easier-access litter boxes."
  ELSE "Keep providing love, good food, and regular vet care!"

\* The alert pushed when the status becomes "risky" from thriving or ok
RiskyAlert(point, catName) ==
  [ id |-> "alert-risky-" \o ToString(point.ageMonths),
    ageMonths |-> point.ageMonths,
    severity |-> "warning",
    message |-> "At age " \o ToString(point.ageMonths \div 12) \o ", " \o catName
                  \o "'s health moves to \"risky\" status.",
    recommendation |-> "Consider adjusting diet, increasing playtime by 10-15 minutes, and scheduling a vet checkup." ]

\* The alert pushed when the status becomes "unhealthy" from anything else
UnhealthyAlert(point, catName) ==
  [ id |-> "alert-unhealthy-" \o ToString(point.ageMonths),
    ageMonths |-> point.ageMonths,
    severity |-> "critical",
    message |-> "At age " \o ToString(point.ageMonths \div 12) \o ", " \o catName
                  \o " reaches \"unhealthy\" status.",
    recommendation |-> "Urgent: Schedule a vet visit, significantly reduce treats, and increase daily activity." ]

WeightAlert(point, catName) ==
  [ id |-> "alert-weight-" \o ToString(point.ageMonths),
    ageMonths |-> point.ageMonths,
    severity |-> "warning",
    message |-> catName \o "'s weight is trending 15%+ above ideal.",
    recommendation |-> "Reduce treats to 1-2 per day, switch to measured portions, and add 10+ minutes of active play." ]

VetAlert(point, catName) ==
  [ id |-> "alert-vet-" \o ToString(point.ageMonths),
    ageMonths |-> point.ageMonths,
    severity |-> "info",
    message |-> catName \o " is entering their senior years. Regular vet visits become more important.",
    recommendation |-> "Consider scheduling annual or bi-annual vet checkups to catch age-related issues early." ]

\* RiskyTransition that also fires on the way back from unhealthy
RiskyTransitionFromAny(point, previousStatus) ==
  /\ point.healthStatus = "risky"
  /\ previousStatus # "risky"

\* if (point.healthStatus === "risky" && previousStatus !== "risky"
\*     && previousStatus !== "unhealthy")
RiskyTransition(point, previousStatus) ==
  /\ point.healthStatus = "risky"
  /\ previousStatus # "risky"
  /\ previousStatus # "unhealthy"

\* UnhealthyTransition that forgets the previous status
UnhealthyEveryMonth(point, previousStatus) == point.healthStatus = "unhealthy"

\* if (point.healthStatus === "unhealthy" && previousStatus !== "unhealthy")
UnhealthyTransition(point, previousStatus) ==
  /\ point.healthStatus = "unhealthy"
  /\ previousStatus # "unhealthy"

\* WeightOverThreshold from the ideal maximum on
WeightFromIdealMax(point, idealRange) ==
  point.weightKgEstimate >= idealRange.max

\* point.weightKgEstimate > idealRange.max * 1.15
WeightOverThreshold(point, idealRange) ==
  point.weightKgEstimate * 100 > idealRange.max * 115

\* VetGap that starts after month 120
VetGapLate(point, careRoutine) ==
  /\ point.ageMonths > LIFE_STAGES.adult
  /\ Coalesce(careRoutine.vetVisitsPerYear, 0) < 1

\* point.ageMonths >= LIFE_STAGES.adult.end && (careRoutine.vetVisitsPerYear ?? 0) < 1
VetGap(point, careRoutine) ==
  /\ point.ageMonths >= LIFE_STAGES.adult
  /\ Coalesce(careRoutine.vetVisitsPerYear, 0) < 1

\* The locals of generateAlerts before its loop
AlertLoopInit ==
  [ alerts |-> << >>, previousStatus |-> "thriving",
    hasWarnedAboutWeight |-> FALSE, hasWarnedAboutVet |-> FALSE ]

\* One iteration of  for (const point of points)
AlertLoopBody(st, point, catName, careRoutine, idealRange) ==
  LET risky == IF RiskyTransition(point, st.previousStatus)
                 THEN << RiskyAlert(point, catName) >> ELSE << >>
      unhealthy == IF UnhealthyTransition(point, st.previousStatus)
                     THEN << UnhealthyAlert(point, catName) >> ELSE << >>
      warnWeight == ~st.hasWarnedAboutWeight /\ WeightOverThreshold(point, idealRange)
      warnVet == ~st.hasWarnedAboutVet /\ VetGap(point, careRoutine)
  IN  [ alerts |-> st.alerts \o risky \o unhealthy
                     \o (IF warnWeight THEN << WeightAlert(point, catName) >> ELSE << >>)
                     \o (IF warnVet THEN << VetAlert(point, catName) >> ELSE << >>),
        previousStatus |-> point.healthStatus,
        hasWarnedAboutWeight |-> st.hasWarnedAboutWeight \/ warnWeight,
        hasWarnedAboutVet |-> st.hasWarnedAboutVet \/ warnVet ]

\* The iterations lo..hi of the loop from the locals st, the range split in
\* halves so that the evaluation nests to a depth of log2(hi - lo)
RECURSIVE AlertLoopFrom(_, _, _, _, _, _, _)
AlertLoopFrom(st, pts, lo, hi, catName, careRoutine, idealRange) ==
  IF lo > hi THEN st
  ELSE IF lo = hi THEN AlertLoopBody(st, pts[lo], catName, careRoutine, idealRange)
  ELSE Bind(AlertLoopFrom(st, pts, lo, (lo + hi) \div 2, catName, careRoutine, idealRange),
            LAMBDA half : AlertLoopFrom(half, pts, ((lo + hi) \div 2) + 1, hi,
                                        catName, careRoutine, idealRange))

\* for (const point of points) over the first n points
AlertLoop(pts, n, catName, careRoutine, idealRange) ==
  AlertLoopFrom(AlertLoopInit, pts, 1, n, catName, careRoutine, idealRange)

milestoneMonths ==
  << [month |-> 12, message |-> "reaches 1 year old - no longer a kitten!"],
     [month |-> 84, message |-> "turns 7 - now considered a mature adult."],
     [month |-> 120, message |-> "turns 10 - entering senior years."],
     [month |-> 180, message |-> "turns 15 - a wonderful achievement!"] >>

MilestoneAlert(milestone, catName, careRoutine) ==
  [ id |-> "milestone-" \o ToString(milestone.month),
    ageMonths |-> milestone.month,
    severity |-> "info",
    message |-> catName \o " " \o milestone.message,
    recommendation |-> getLifeStageRecommendation(milestone.month, careRoutine) ]

RECURSIVE MilestoneAlerts(_, _, _, _)
MilestoneAlerts(pts, k, catName, careRoutine) ==
  IF k = 0 THEN << >>
  ELSE MilestoneAlerts(pts, k - 1, catName, careRoutine)
         \o (IF \E i \in 1..Len(pts) : pts[i].ageMonths = milestoneMonths[k].month
               THEN << MilestoneAlert(milestoneMonths[k], catName, careRoutine) >>
               ELSE << >>)

\* SortAlerts that returns the alerts in the order they were pushed
SortAlertsAsPushed(alerts) == alerts

\* return alerts.sort((a, b) => a.ageMonths - b.ageMonths)
SortAlerts(alerts) == SortByAge(alerts)

generateAlerts(pts, catProfile, careRoutine, idealRange) ==
  LET catName == CatName(catProfile)
      scanned == AlertLoop(pts, Len(pts), catName, careRoutine, idealRange).alerts
  IN  SortAlerts(scanned \o MilestoneAlerts(pts, Len(milestoneMonths), catName, careRoutine))

-----------------------------------------------------------------------------
(* Summary & Recommendation Generator: page.tsx 922-1025 *)

\* StatusScore that counts from 0
StatusScoreFromZero(status) ==
  CASE status = "thriving" -> 3
    [] status = "ok" -> 2
    [] status = "risky" -> 1
    [] status = "unhealthy" -> 0

StatusScore(status) ==
  CASE status = "thriving" -> 4
    [] status = "ok" -> 3
    [] status = "risky" -> 2
    [] status = "unhealthy" -> 1

RECURSIVE SumScores(_, _)
SumScores(pts, n) ==
  IF n = 0 THEN 0 ELSE SumScores(pts, n - 1) + StatusScore(pts[n].healthStatus)

\* points.slice(-24)
LastPoints(pts) == SubSeq(pts, Max2(1, Len(pts) - 23), Len(pts))

\* TrajectoryLabel with the boundary values in the higher bucket
TrajectoryLabelInclusive(sum, n) ==
  IF n = 0 THEN "needs attention"
  ELSE IF sum * 10 >= 35 * n THEN "excellent"
  ELSE IF sum * 10 >= 25 * n THEN "good"
  ELSE IF sum * 10 >= 15 * n THEN "concerning"
  ELSE "needs attention"

\* The trajectory label; avgStatus = sum / n is compared without dividing,
\* and 0 / 0 is NaN, for which every comparison is false.
TrajectoryLabel(sum, n) ==
  IF n = 0 THEN "needs attention"
  ELSE IF sum * 10 > 35 * n THEN "excellent"
  ELSE IF sum * 10 > 25 * n THEN "good"
  ELSE IF sum * 10 > 15 * n THEN "concerning"
  ELSE "needs attention"

SummaryText(trajectory, catName) ==
  IF trajectory \in { "excellent", "good" }
    THEN "Based on " \o catName \o "'s current care routine, the long-term outlook is "
           \o trajectory \o "! " \o "With consistent care, " \o catName
           \o " has a great chance at a healthy, happy life."
    ELSE catName \o "'s health trajectory shows some areas for improvement. "
           \o "With a few adjustments to diet and activity, you can help " \o catName
           \o " thrive."

\* The recommendations pushed by the rules, before the padding
RuleRecommendations(catProfile, careRoutine, idealRange) ==
  LET catName == CatName(catProfile)
      weight == Coalesce(catProfile.weightKg, MidIdeal(idealRange))
      playMinutes == Coalesce(careRoutine.playMinutesPerDay, 0)
      vetVisits == Coalesce(careRoutine.vetVisitsPerYear, 0)
      treats == Coalesce(careRoutine.treatsPerDay, 0)
  IN  (IF weight > idealRange.max
         THEN << "Reduce daily food portions by about 10% and limit treats to 2-3 per day.",
                 "Add 10-15 minutes of active play with wand toys or laser pointers." >>
       ELSE IF weight < idealRange.min
         THEN << "Consider increasing food portions slightly and consult your vet about weight gain." >>
       ELSE << >>)
      \o (IF playMinutes < 15
            THEN << "Aim for at least 15-20 minutes of interactive play daily to keep "
                      \o catName \o " active and engaged." >>
            ELSE << >>)
      \o (IF vetVisits < 1
            THEN << "Schedule at least one annual vet checkup to catch any health issues early." >>
          ELSE IF Coalesce(catProfile.ageYears, 0) >= 10 /\ vetVisits < 2
            THEN << "For senior cats, consider twice-yearly vet visits for optimal health monitoring." >>
          ELSE << >>)
      \o (IF careRoutine.foodType = Some("dry")
            THEN << "Consider adding some wet food to " \o catName
                      \o "'s diet for better hydration." >>
            ELSE << >>)
      \o (IF treats > 5
            THEN << "Reduce treats to 2-3 per day, or switch to lower-calorie options." >>
            ELSE << >>)

\* The two  if (recommendations.length < 3) push(...)  statements
PadRecommendations(recs, catName) ==
  LET r1 == IF Len(recs) < 3
              THEN Append(recs, "Continue providing fresh water and a clean litter box for "
                                  \o catName \o "'s comfort.")
              ELSE recs
  IN  IF Len(r1) < 3
        THEN Append(r1, "Keep up the love and attention - it's the most important part of cat care!")
        ELSE r1

generateSummary(catProfile, careRoutine, pts, alerts, idealRange) ==
  LET catName == CatName(catProfile)
      lastPoints == LastPoints(pts)
      trajectory == TrajectoryLabel(SumScores(lastPoints, Len(lastPoints)), Len(lastPoints))
      recs == PadRecommendations(RuleRecommendations(catProfile, careRoutine, idealRange), catName)
  IN  [ summary |-> SummaryText(trajectory, catName),
        recommendations |-> SubSeq(recs, 1, Min2(5, Len(recs))) ]

-----------------------------------------------------------------------------
(* Trajectory Simulator: runSimulation, page.tsx 840-917 *)

\* Bounds of the model
MaxLen == 2          \* endAgeMonths - startAgeMonths is at most this

\* Math.random() is in [0, 1), so noise = (Math.random() - 0.5) * 0.05 is in
\* [-0.025, 0.025): its two extremes and the middle.
NoiseChoices == { -2500, 0, 2499 }

\* DriftedWeight without the floor
DriftedWeightNoFloor(weight, monthlyDrift, noise) == weight + monthlyDrift + noise

\* Math.max(1.5, currentWeight + monthlyDrift + noise)
DriftedWeight(weight, monthlyDrift, noise) ==
  Max2(150000, weight + monthlyDrift + noise)

\* if (month < 12) Math.min(currentWeight * 1.05, idealRange.max)
KittenGrowth(weight, idealRange) == Min2((weight * 105) \div 100, idealRange.max)

\* else if (month > LIFE_STAGES.senior.end)
\*   Math.max(currentWeight * 0.998, idealRange.min * 0.8)
SeniorDecline(weight, idealRange) ==
  Max2((weight * 998) \div 1000, (idealRange.min * 8) \div 10)

AgeAdjustedWeight(weight, m, idealRange) ==
  IF m < 12 THEN KittenGrowth(weight, idealRange)
  ELSE IF m > LIFE_STAGES.senior THEN SeniorDecline(weight, idealRange)
  ELSE weight

\* Math.round(currentWeight * 100) / 100: the nearest multiple of 0.01 kg,
\* a half rounding up
RoundWeight(weight) == ((weight + 500) \div 1000) * 1000

\* Notes also in the month after a birthday
IsYearMilestoneWide(m, startAgeMonths) == m % 12 <= 1 \/ m = startAgeMonths

\* const isYearMilestone = month % 12 === 0 || month === startAgeMonths
IsYearMilestone(m, startAgeMonths) == m % 12 = 0 \/ m = startAgeMonths

\* The notes of a point: generateNotes(...) at a year milestone, "" otherwise
PointNotes(m, startAgeMonths, weight, status, idealRange, catName) ==
  IF IsYearMilestone(m, startAgeMonths)
    THEN generateNotes(m, weight, status, idealRange, catName)
    ELSE ""

\* The point pushed for one month, from the weight after the age adjustment
SimulationPoint(m, weight, cfg, idealRange) ==
  LET status == determineHealthStatus(weight, idealRange,
                                      cfg.careRoutine.vetVisitsPerYear, m,
                                      Len(cfg.catProfile.knownConditions) > 0)
  IN  [ ageMonths |-> m,
        weightKgEstimate |-> RoundWeight(weight),
        healthStatus |-> status,
        notes |-> PointNotes(m, cfg.startAgeMonths, weight, status, idealRange,
                             CatName(cfg.catProfile)) ]

\* const monthlyDrift = calorieProxy * 0.02, the proxy computed once before
\* the loop from the starting weight
MonthlyDrift(cfg, idealRange) ==
  LET midIdeal == MidIdeal(idealRange)
      startWeight == Coalesce(cfg.catProfile.weightKg, midIdeal)
  IN  (calculateCalorieProxy(cfg.careRoutine, cfg.catProfile.indoorOutdoor,
                             startWeight, midIdeal) * 2) \div 100

\* LoopContinues with the last month left out
LoopStopsEarly(m, cfg) == m < cfg.endAgeMonths

\* The loop condition  month <= endAgeMonths
LoopContinues(m, cfg) == m <= cfg.endAgeMonths

\* The SimulationResult built after the loop
BuildResult(pts, cfg, idealRange) ==
  LET alerts == generateAlerts(pts, cfg.catProfile, cfg.careRoutine, idealRange)
      s == generateSummary(cfg.catProfile, cfg.careRoutine, pts, alerts, idealRange)
  IN  [ points |-> pts, alerts |-> alerts,
        summary |-> s.summary, recommendations |-> s.recommendations ]

\* runSimulation, lines 841-858: the ideal range, the starting weight.  An
\* undefined ideal range makes  idealRange.min  throw a TypeError.
RunSimulationEnter ==
  /\ pc = "start"
  /\ LET idealRange == getIdealWeightRange(config.catProfile.breed)
     IN  IF IsNull(idealRange)
           THEN /\ pc' = "threw"
                /\ UNCHANGED << month, currentWeight >>
           ELSE /\ pc' = "loop"
                /\ month' = config.startAgeMonths
                /\ currentWeight' = Coalesce(config.catProfile.weightKg, MidIdeal(idealRange))
  /\ points' = << >>
  /\ UNCHANGED << config, result, localEnhanced, response, returned >>
  /\ UNCHANGED uiVars

\* One iteration of the loop, lines 861-897, for one value of the noise
RunSimulationMonthWith(noise) ==
  /\ pc = "loop"
  /\ LoopContinues(month, config)
  /\ LET idealRange == getIdealWeightRange(config.catProfile.breed)
         drifted == DriftedWeight(currentWeight, MonthlyDrift(config, idealRange), noise)
         weight == AgeAdjustedWeight(drifted, month, idealRange)
     IN  /\ currentWeight' = weight
         /\ points' = Append(points, SimulationPoint(month, weight, config, idealRange))
  /\ month' = month + 1
  /\ UNCHANGED << config, pc, result, localEnhanced, response, returned >>
  /\ UNCHANGED uiVars

RunSimulationMonth == \E noise \in NoiseChoices : RunSimulationMonthWith(noise)

\* The loop has ended: alerts, summary and the returned object, lines 899-916
RunSimulationReturn ==
  /\ pc = "loop"
  /\ ~LoopContinues(month, config)
  /\ result' = BuildResult(points, config, getIdealWeightRange(config.catProfile.breed))
  /\ pc' = "simulated"
  /\ UNCHANGED << config, month, currentWeight, points, localEnhanced, response, returned >>
  /\ UNCHANGED uiVars

-----------------------------------------------------------------------------
(* Enhancement Layer: simulation-enhancer (src/unnamed/part_001) *)

\* risk.condition.replace(/\s/g, '-').toLowerCase() on the conditions of the
\* registry
ConditionSlug(condition) ==
  CASE
      condition = "Hypertrophic Cardiomyopathy (HCM)" -> "hypertrophic-cardiomyopathy-(hcm)"
    [] condition = "Hip Dysplasia" -> "hip-dysplasia"
    [] condition = "Spinal Muscular Atrophy (SMA)" -> "spinal-muscular-atrophy-(sma)"
    [] condition = "Polycystic Kidney Disease (PKD)" -> "polycystic-kidney-disease-(pkd)"
    [] condition = "Bladder Stones" -> "bladder-stones"
    [] condition = "Feline Infectious Peritonitis (FIP)" -> "feline-infectious-peritonitis-(fip)"
    [] condition = "Glycogen Storage Disease IV (GSD IV)" -> "glycogen-storage-disease-iv-(gsd-iv)"
    [] condition = "Obesity" -> "obesity"
    [] condition = "Hybrid Male Sterility" -> "hybrid-male-sterility"
    [] condition = "Brachycephalic Airway Syndrome" -> "brachycephalic-airway-syndrome"
    [] condition = "Progressive Retinal Atrophy (PRA)" -> "progressive-retinal-atrophy-(pra)"
    [] condition = "Pyruvate Kinase Deficiency (PK Deficiency)" -> "pyruvate-kinase-deficiency-(pk-deficiency)"
    [] condition = "Flat Chested Kitten Syndrome" -> "flat-chested-kitten-syndrome"
    [] condition = "Amyloidosis" -> "amyloidosis"
    [] condition = "Dental Disease" -> "dental-disease"
    [] condition = "Respiratory Issues" -> "respiratory-issues"
    [] condition = "Renal Amyloidosis" -> "renal-amyloidosis"
    [] condition = "Patellar Luxation" -> "patellar-luxation"
    [] condition = "Dental Crowding" -> "dental-crowding"
    [] condition = "Diabetes Mellitus" -> "diabetes-mellitus"
    [] condition = "Hypokalaemia" -> "hypokalaemia"
    [] condition = "Cranial Deformities" -> "cranial-deformities"
    [] condition = "Amyloidosis (Liver)" -> "amyloidosis-(liver)"
    [] condition = "Dilated Cardiomyopathy (DCM)" -> "dilated-cardiomyopathy-(dcm)"
    [] condition = "Skin Issues" -> "skin-issues"
    [] condition = "Temperature Sensitivity" -> "temperature-sensitivity"
    [] condition = "Hereditary Myopathy" -> "hereditary-myopathy"
    [] condition = "Skin Sensitivity" -> "skin-sensitivity"
    [] condition = "Hypotrichosis" -> "hypotrichosis"
    [] condition = "Osteochondrodysplasia" -> "osteochondrodysplasia"
    [] condition = "Arthritis" -> "arthritis"
    [] condition = "Cardiomyopathy" -> "cardiomyopathy"
    [] condition = "Renal Disease" -> "renal-disease"
    [] condition = "Feline Hyperesthesia Syndrome" -> "feline-hyperesthesia-syndrome"
    [] condition = "Deafness (White Cats)" -> "deafness-(white-cats)"
    [] condition = "Ataxia" -> "ataxia"
    [] condition = "Diabetes" -> "diabetes"
    [] condition = "Kidney Disease" -> "kidney-disease"
    [] condition = "Hairballs" -> "hairballs"
    [] condition = "Matted Fur" -> "matted-fur"
    [] condition = "Klinefelter Syndrome (Male Calicos)" -> "klinefelter-syndrome-(male-calicos)"
    [] condition = "Manx Syndrome" -> "manx-syndrome"
    [] condition = "Corneal Dystrophy" -> "corneal-dystrophy"

\* String.prototype.includes
Contains(s, sub) ==
  \E i \in 1..(Len(s) - Len(sub) + 1) : SubSeq(s, i, i + Len(sub) - 1) = sub

\* String.prototype.substring(0, n)
Prefix(s, n) == SubSeq(s, 1, Min2(n, Len(s)))

\* Array.prototype.join(", ")
RECURSIVE JoinComma(_)
JoinComma(s) ==
  IF s = << >> THEN ""
  ELSE IF Len(s) = 1 THEN s[1]
  ELSE s[1] \o ", " \o JoinComma(Tail(s))

\* points.filter(p => p.ageMonths % 12 === 0)
YearlyPoints(pts) == SelectSeq(pts, LAMBDA p : p.ageMonths % 12 = 0)

\* The trend from the two half sums: secondHalfAvg > firstHalfAvg + 0.3 is
\* improving, secondHalfAvg < firstHalfAvg - 0.3 is declining (averages
\* compared without dividing; n1, n2 > 0).
Trend(s1, n1, s2, n2) ==
  IF 10 * s2 * n1 > 10 * s1 * n2 + 3 * n1 * n2 THEN "improving"
  ELSE IF 10 * s2 * n1 < 10 * s1 * n2 - 3 * n1 * n2 THEN "declining"
  ELSE "stable"

\* extrapolateStatus; avgScore is the fraction sum / n
extrapolateStatus(sum, n, trend, targetYear) ==
  LET delta10 == (IF trend = "declining" THEN -5 ELSE IF trend = "improving" THEN 3 ELSE 0)
                   + (IF targetYear >= 15 THEN -3 ELSE 0)
      adjusted10n == 10 * sum + delta10 * n        \* adjustedScore * 10 * n
  IN  IF adjusted10n >= 35 * n THEN "thriving"
      ELSE IF adjusted10n >= 25 * n THEN "ok"
      ELSE IF adjusted10n >= 15 * n THEN "risky"
      ELSE "unhealthy"

\* yearlyPoints.find(p => p.ageMonths === m)?.healthStatus || extrapolateStatus(...)
ProjectedStatus(yearly, m, sum, n, trend) ==
  LET hits == { i \in 1..Len(yearly) : yearly[i].ageMonths = m }
  IN  IF hits # {} THEN yearly[CHOOSE i \in hits : \A j \in hits : i <= j].healthStatus
      ELSE extrapolateStatus(sum, n, trend, m \div 12)

RiskFactors(catProfile, careRoutine) ==
  LET playMinutes == Coalesce(careRoutine.playMinutesPerDay, 0)
      vetVisits == Coalesce(careRoutine.vetVisitsPerYear, 0)
      treats == Coalesce(careRoutine.treatsPerDay, 0)
      breedProfile == findBreedProfile(catProfile.breed)
      weightKg == Coalesce(catProfile.weightKg, 0)
  IN  (IF playMinutes < 10 THEN << "Low activity level (less than 10 min/day)" >> ELSE << >>)
      \o (IF vetVisits < 1 THEN << "No regular vet visits" >> ELSE << >>)
      \o (IF treats > 5 THEN << "High treat consumption" >> ELSE << >>)
      \o (IF careRoutine.foodType = Some("dry")
            THEN << "Dry food only (lower hydration)" >> ELSE << >>)
      \o (IF weightKg # 0 /\ weightKg > breedProfile.idealWeight.max
            THEN << "Current weight above ideal range" >> ELSE << >>)
      \o (IF Len(catProfile.knownConditions) > 0
            THEN << "Existing health conditions: " \o JoinComma(catProfile.knownConditions) >>
            ELSE << >>)
      \o (IF Coalesce(catProfile.ageYears, 1) >= 10 /\ vetVisits < 2
            THEN << "Senior cat needs more frequent vet visits" >> ELSE << >>)

PositiveFactors(catProfile, careRoutine) ==
  LET playMinutes == Coalesce(careRoutine.playMinutesPerDay, 0)
      vetVisits == Coalesce(careRoutine.vetVisitsPerYear, 0)
      treats == Coalesce(careRoutine.treatsPerDay, 0)
      breedProfile == findBreedProfile(catProfile.breed)
      weightKg == Coalesce(catProfile.weightKg, 0)
  IN  (IF playMinutes >= 20 THEN << "Good daily activity level" >> ELSE << >>)
      \o (IF vetVisits >= 2 THEN << "Regular vet checkups" >> ELSE << >>)
      \o (IF treats <= 2 THEN << "Controlled treat intake" >> ELSE << >>)
      \o (IF careRoutine.foodType \in { Some("wet"), Some("mixed") }
            THEN << "Good food variety for hydration" >> ELSE << >>)
      \o (IF /\ weightKg # 0
             /\ weightKg >= breedProfile.idealWeight.min
             /\ weightKg <= breedProfile.idealWeight.max
            THEN << "Weight in healthy range" >> ELSE << >>)

\* analyzeTrajectory; averageHealthScore is kept as the fraction num / den
analyzeTrajectory(pts, catProfile, careRoutine) ==
  LET yearly == YearlyPoints(pts)
      n == Len(yearly)
  IN  IF n < 2
        THEN [ trend |-> "stable",
               projectedStatusAtYear10 |-> "ok",
               projectedStatusAtYear15 |-> "ok",
               riskFactors |-> << >>,
               positiveFactors |-> << >>,
               averageHealthScore |-> [num |-> 3, den |-> 1] ]
        ELSE LET sum == SumScores(yearly, n)
                 midpoint == n \div 2
                 s1 == SumScores(yearly, midpoint)
                 trend == Trend(s1, midpoint, sum - s1, n - midpoint)
             IN  [ trend |-> trend,
                   projectedStatusAtYear10 |-> ProjectedStatus(yearly, 120, sum, n, trend),
                   projectedStatusAtYear15 |-> ProjectedStatus(yearly, 180, sum, n, trend),
                   riskFactors |-> RiskFactors(catProfile, careRoutine),
                   positiveFactors |-> PositiveFactors(catProfile, careRoutine),
                   averageHealthScore |-> [num |-> sum, den |-> n] ]

\* generateBreedSpecificAlerts: the alerts of one health risk.
\* startAge is  catProfile.ageYears ?? 1, in years.
RiskAlerts(risk, breedProfile, catName, startAge) ==
  LET onsetMonth == risk.onsetMonths
      preWarningMonth == Max2(onsetMonth - 12, startAge * 12)
      slug == ConditionSlug(risk.condition)
  IN  IF onsetMonth >= startAge * 12
        THEN (IF preWarningMonth # onsetMonth
                THEN << [ id |-> "breed-" \o slug \o "-prewarning-" \o ToString(preWarningMonth),
                          ageMonths |-> preWarningMonth,
                          severity |-> IF risk.riskLevel = "high" THEN "warning" ELSE "info",
                          message |-> catName \o " is approaching the typical onset age for "
                                        \o risk.condition \o " in " \o breedProfile.breed \o "s.",
                          recommendation |-> "Start monitoring: " \o risk.monitoringAdvice ] >>
                ELSE << >>)
             \o << [ id |-> "breed-" \o slug \o "-onset-" \o ToString(onsetMonth),
                     ageMonths |-> onsetMonth,
                     severity |-> IF risk.riskLevel = "high" THEN "critical" ELSE "warning",
                     message |-> breedProfile.breed \o "s typically begin showing "
                                   \o risk.condition \o " around age " \o risk.onsetText \o ".",
                     recommendation |-> risk.monitoringAdvice ] >>
        ELSE << >>

\* ScreeningAlerts that leaves out the screening of the starting year
ScreeningAlertsAfterStart(schedule, catName, startAge) ==
  IF schedule.ageMonths > startAge * 12
    THEN << [ id |-> "breed-screening-" \o schedule.ageText,
              ageMonths |-> schedule.ageMonths,
              severity |-> "info",
              message |-> "Year " \o schedule.ageText \o " screening recommended for "
                            \o catName \o ".",
              recommendation |-> "Schedule: " \o JoinComma(schedule.screenings) \o ". "
                                   \o schedule.reason ] >>
    ELSE << >>

\* generateBreedSpecificAlerts: the alert of one screening-schedule entry
ScreeningAlerts(schedule, catName, startAge) ==
  IF schedule.ageMonths >= startAge * 12
    THEN << [ id |-> "breed-screening-" \o schedule.ageText,
              ageMonths |-> schedule.ageMonths,
              severity |-> "info",
              message |-> "Year " \o schedule.ageText \o " screening recommended for "
                            \o catName \o ".",
              recommendation |-> "Schedule: " \o JoinComma(schedule.screenings) \o ". "
                                   \o schedule.reason ] >>
    ELSE << >>

RECURSIVE AllRiskAlerts(_, _, _, _, _)
AllRiskAlerts(risks, k, breedProfile, catName, startAge) ==
  IF k = 0 THEN << >>
  ELSE AllRiskAlerts(risks, k - 1, breedProfile, catName, startAge)
         \o RiskAlerts(risks[k], breedProfile, catName, startAge)

RECURSIVE AllScreeningAlerts(_, _, _, _)
AllScreeningAlerts(schedules, k, catName, startAge) ==
  IF k = 0 THEN << >>
  ELSE AllScreeningAlerts(schedules, k - 1, catName, startAge)
         \o ScreeningAlerts(schedules[k], catName, startAge)

generateBreedSpecificAlerts(catProfile, careRoutine, pts) ==
  LET breedProfile == findBreedProfile(catProfile.breed)
      catName == CatName(catProfile)
      startAge == Coalesce(catProfile.ageYears, 1)
  IN  SortByAge(
        AllRiskAlerts(breedProfile.healthRisks, Len(breedProfile.healthRisks),
                      breedProfile, catName, startAge)
        \o AllScreeningAlerts(breedProfile.screeningSchedule,
                              Len(breedProfile.screeningSchedule), catName, startAge))

\* generateYearRecommendations
generateYearRecommendations(year, catProfile, careRoutine, trajectory, breedProfile, catName) ==
  LET hits == { i \in 1..Len(breedProfile.screeningSchedule) :
                  breedProfile.screeningSchedule[i].ageMonths = year * 12 }
      screeningRec ==
        IF hits = {} THEN << >>
        ELSE LET screening == breedProfile.screeningSchedule[
                                CHOOSE i \in hits : \A j \in hits : i <= j]
             IN  << [ ageYears |-> year, category |-> "screening",
                      recommendation |-> JoinComma(screening.screenings),
                      reason |-> screening.reason,
                      priority |-> IF year >= 7 THEN "high" ELSE "medium" ] >>
      RiskRec[k \in 0..Len(breedProfile.healthRisks)] ==
        IF k = 0 THEN << >>
        ELSE LET risk == breedProfile.healthRisks[k]
             IN  RiskRec[k - 1] \o
                 (IF risk.onsetMonths = year * 12
                    THEN << [ ageYears |-> year, category |-> "monitoring",
                              recommendation |-> "Begin " \o risk.condition \o " monitoring",
                              reason |-> risk.monitoringAdvice,
                              priority |-> IF risk.riskLevel = "high" THEN "high" ELSE "medium" ] >>
                    ELSE << >>)
      ageRecs ==
        (IF year = 1
           THEN << [ ageYears |-> year, category |-> "screening",
                     recommendation |-> "Complete first-year vaccinations and establish baseline bloodwork",
                     reason |-> "Sets foundation for lifelong health monitoring",
                     priority |-> "high" ] >>
           ELSE << >>)
        \o (IF year = 7
              THEN << [ ageYears |-> year, category |-> "screening",
                        recommendation |-> "Begin senior wellness screening",
                        reason |-> catName \o " enters mature adult years - early detection is key",
                        priority |-> "high" ] >>
                   \o (IF Coalesce(careRoutine.vetVisitsPerYear, 0) < 2
                         THEN << [ ageYears |-> year, category |-> "monitoring",
                                   recommendation |-> "Increase to twice-yearly vet visits",
                                   reason |-> "Senior cats benefit from more frequent health monitoring",
                                   priority |-> "medium" ] >>
                         ELSE << >>)
              ELSE << >>)
        \o (IF year = 10
              THEN << [ ageYears |-> year, category |-> "diet",
                        recommendation |-> "Evaluate transition to senior cat food formula",
                        reason |-> "Senior formulas support kidney function and joint health",
                        priority |-> "medium" ] >>
              ELSE << >>)
        \o (IF year = 12
              THEN << [ ageYears |-> year, category |-> "comfort",
                        recommendation |-> "Consider orthopedic bedding and easier litter box access",
                        reason |-> "Supports mobility and comfort in senior years",
                        priority |-> "medium" ] >>
              ELSE << >>)
      Includes(factors, f) == \E i \in 1..Len(factors) : factors[i] = f
      trajectoryRecs ==
        IF trajectory.trend = "declining" /\ year >= Coalesce(catProfile.ageYears, 1) + 2
          THEN (IF Includes(trajectory.riskFactors, "Low activity level (less than 10 min/day)")
                  THEN << [ ageYears |-> year, category |-> "activity",
                            recommendation |-> "Gradually increase daily play to 15-20 minutes",
                            reason |-> "Improving activity can reverse declining health trajectory",
                            priority |-> "high" ] >>
                  ELSE << >>)
               \o (IF Includes(trajectory.riskFactors, "No regular vet visits")
                     THEN << [ ageYears |-> year, category |-> "monitoring",
                               recommendation |-> "Schedule a comprehensive health check",
                               reason |-> "Regular monitoring essential for declining health trajectory",
                               priority |-> "high" ] >>
                     ELSE << >>)
          ELSE << >>
  IN  screeningRec \o RiskRec[Len(breedProfile.healthRisks)] \o ageRecs \o trajectoryRecs

\* generateProgressiveTimeline: for (year = Math.max(1, startAge); year <= 20; year++)
RECURSIVE TimelineFrom(_, _, _, _, _, _)
TimelineFrom(year, catProfile, careRoutine, trajectory, breedProfile, catName) ==
  IF year > 20 THEN << >>
  ELSE generateYearRecommendations(year, catProfile, careRoutine, trajectory,
                                   breedProfile, catName)
       \o TimelineFrom(year + 1, catProfile, careRoutine, trajectory, breedProfile, catName)

generateProgressiveTimeline(catProfile, careRoutine, trajectory, breedProfile) ==
  TimelineFrom(Max2(1, Coalesce(catProfile.ageYears, 1)), catProfile, careRoutine,
               trajectory, breedProfile, CatName(catProfile))

\* generateEnhancedSummary; Math.round of a half rounds up
generateEnhancedSummary(originalSummary, trajectory, breedProfile, catProfile) ==
  LET catName == CatName(catProfile)
      withTrend ==
        originalSummary \o
        (IF trajectory.trend = "declining"
           THEN " The health trajectory shows some decline over time - small changes now can make a big difference."
         ELSE IF trajectory.trend = "improving"
           THEN " Great news - the health trajectory is improving with current care!"
         ELSE "")
      avgLifespanRounded ==
        (breedProfile.lifeExpectancy.min + breedProfile.lifeExpectancy.max + 1) \div 2
  IN  IF breedProfile.breed # "Domestic Shorthair"
        THEN withTrend \o " As a " \o breedProfile.breed \o ", " \o catName
               \o " has an average life expectancy of " \o ToString(avgLifespanRounded)
               \o " years with proper care."
        ELSE withTrend

\* recs.some(r => r.includes(sub))
SomeIncludes(recs, sub) == \E i \in 1..Len(recs) : Contains(recs[i], sub)

\* The body of  trajectory.riskFactors.forEach  in generateEnhancedRecommendations
AddForRiskFactor(recs, risk, catName) ==
  LET r1 == IF Contains(risk, "Low activity") /\ ~SomeIncludes(recs, "play")
              THEN Append(recs, "Increase " \o catName
                                  \o "'s daily play sessions to at least 15 minutes.")
              ELSE recs
      r2 == IF Contains(risk, "vet visits") /\ ~SomeIncludes(r1, "vet")
              THEN Append(r1, "Schedule regular vet checkups - at least annually, twice yearly for seniors.")
              ELSE r1
  IN  IF Contains(risk, "treat") /\ ~SomeIncludes(r2, "treat")
        THEN Append(r2, "Reduce daily treats to 2-3 to support healthy weight.")
        ELSE r2

\* The body of  upcomingRisks.forEach
AddForUpcomingRisk(recs, risk, breedProfile) ==
  IF risk.riskLevel = "high" /\ ~SomeIncludes(recs, risk.condition)
    THEN Append(recs, breedProfile.breed \o "s are prone to " \o risk.condition \o ". "
                        \o risk.monitoringAdvice)
    ELSE recs

generateEnhancedRecommendations(originalRecs, trajectory, breedProfile, catProfile, careRoutine) ==
  LET catName == CatName(catProfile)
      currentAge == Coalesce(catProfile.ageYears, 1)
      factors == trajectory.riskFactors
      AfterFactor[k \in 0..Len(factors)] ==
        IF k = 0 THEN originalRecs
        ELSE AddForRiskFactor(AfterFactor[k - 1], factors[k], catName)
      upcomingRisks ==
        SelectSeq(breedProfile.healthRisks,
                  LAMBDA r : r.onsetMonths > currentAge * 12
                             /\ r.onsetMonths <= (currentAge + 3) * 12)
      AfterRisk[k \in 0..Len(upcomingRisks)] ==
        IF k = 0 THEN AfterFactor[Len(factors)]
        ELSE AddForUpcomingRisk(AfterRisk[k - 1], upcomingRisks[k], breedProfile)
      recs == AfterRisk[Len(upcomingRisks)]
      ageAdvice == getAgeSpecificAdvice(breedProfile, currentAge)
      fresh == IF IsNull(ageAdvice) THEN {}
               ELSE { i \in 1..Len(ageAdvice[1].advice) :
                        ~SomeIncludes(recs, Prefix(ageAdvice[1].advice[i], 20)) }
      withAdvice ==
        IF fresh = {} THEN recs
        ELSE Append(recs, ageAdvice[1].advice[CHOOSE i \in fresh : \A j \in fresh : i <= j])
  IN  SubSeq(withAdvice, 1, Min2(6, Len(withAdvice)))

\* { ...base, ...over }: object spread, the later keys winning
Spread(base, over) ==
  [ k \in (DOMAIN base) \cup (DOMAIN over) |->
      IF k \in DOMAIN over THEN over[k] ELSE base[k] ]

\* The duplicate filter of enhanceSimulationLocally (lines 446-451): an alert
\* stays when it is the first of the list with its ageMonths and its
\* first 30 characters of message.
SameAgeAndPrefix(a, b) ==
  a.ageMonths = b.ageMonths /\ Prefix(a.message, 30) = Prefix(b.message, 30)

Dedup(alerts) ==
  LET keep == { i \in 1..Len(alerts) :
                  \A j \in 1..(i - 1) : ~SameAgeAndPrefix(alerts[j], alerts[i]) }
      Kept[k \in 0..Len(alerts)] ==
        IF k = 0 THEN << >>
        ELSE IF k \in keep THEN Append(Kept[k - 1], alerts[k]) ELSE Kept[k - 1]
  IN  Kept[Len(alerts)]

\* [...result.alerts, ...breedAlerts].sort(...).filter(...)
MergeAlerts(baseAlerts, breedAlerts) == Dedup(SortByAge(baseAlerts \o breedAlerts))

\* EnhancePoint that writes its own notes
EnhancePointRewritesNotes(point, breedProfile) ==
  Spread(point,
         [ breedHealthRisks |-> getHealthRisksForAge(breedProfile, point.ageMonths \div 12),
           notes |-> "Enhanced." ])

\* result.points.map(point => ({ ...point, breedHealthRisks }))
EnhancePoint(point, breedProfile) ==
  Spread(point,
         [ breedHealthRisks |-> getHealthRisksForAge(breedProfile, point.ageMonths \div 12) ])

EnhancePoints(pts, breedProfile) ==
  [ i \in 1..Len(pts) |-> EnhancePoint(pts[i], breedProfile) ]

enhanceSimulationLocally(res, catProfile, careRoutine) ==
  LET breedProfile == findBreedProfile(catProfile.breed)
      trajectory == analyzeTrajectory(res.points, catProfile, careRoutine)
      breedAlerts == generateBreedSpecificAlerts(catProfile, careRoutine, res.points)
  IN  Spread(res,
        [ alerts |-> MergeAlerts(res.alerts, breedAlerts),
          summary |-> generateEnhancedSummary(res.summary, trajectory, breedProfile, catProfile),
          recommendations |->
            generateEnhancedRecommendations(res.recommendations, trajectory, breedProfile,
                                            catProfile, careRoutine),
          enhancedPoints |-> EnhancePoints(res.points, breedProfile),
          trajectory |-> trajectory,
          breedProfile |-> breedProfile,
          progressiveTimeline |->
            generateProgressiveTimeline(catProfile, careRoutine, trajectory, breedProfile),
          isEnhanced |-> TRUE ])

-----------------------------------------------------------------------------
(* enhanceSimulationWithGPT, part_001 585-646 *)

\* data.notes.find(n => n.ageYears === ageYears): the first matching note,
\* or None
FindNote(notes, ageYears) ==
  LET hits == { i \in 1..Len(notes) : notes[i].ageYears = ageYears }
  IN  IF hits = {} THEN None
      ELSE Some(notes[CHOOSE i \in hits : \A j \in hits : i <= j])

\* MergeNote that also clears the breed health risks of the point
MergeNoteDropsRisks(point, notes) ==
  LET gptNote == FindNote(notes, point.ageMonths \div 12)
  IN  IF IsNull(gptNote) THEN point
      ELSE Spread(point, [ enhancedNote |-> gptNote[1],
                           notes |-> gptNote[1].personalizedNote,
                           breedHealthRisks |-> << >> ])

\* The map callback of lines 622-635
MergeNote(point, notes) ==
  LET gptNote == FindNote(notes, point.ageMonths \div 12)
  IN  IF IsNull(gptNote) THEN point
      ELSE Spread(point, [ enhancedNote |-> gptNote[1],
                           notes |-> gptNote[1].personalizedNote ])

\* return { ...localEnhanced, enhancedPoints }
MergeNotes(local, notes) ==
  Spread(local,
         [ enhancedPoints |->
             [ i \in 1..Len(local.enhancedPoints) |-> MergeNote(local.enhancedPoints[i], notes) ] ])

\* What the request can come back with.
\*   rejected     fetch throws (network failure)
\*   notOk        a response with response.ok false
\*   badJson      an OK response whose response.json() throws
\*   payload      an OK response with a JSON body: success, and notes that is
\*                missing, a value that is no array, or an array of notes
IsFailure(resp) ==
  \/ resp.kind \in { "rejected", "notOk", "badJson" }
  \/ /\ resp.kind = "payload"
     /\ \/ ~resp.success
        \/ resp.notes.kind \in { "missing", "noArray" }

\* GptOutcome that hands back the un-enhanced flag when fetch throws
GptOutcomeLosesLocal(local, resp) ==
  IF resp.kind = "rejected" THEN Spread(local, [ isEnhanced |-> FALSE ])
  ELSE IF resp.kind = "notOk" THEN local
  ELSE IF resp.kind = "badJson" THEN local
  ELSE IF ~resp.success \/ resp.notes.kind = "missing" THEN local
  ELSE IF resp.notes.kind = "noArray" THEN local
  ELSE MergeNotes(local, resp.notes.items)

\* The continuation of enhanceSimulationWithGPT after  await fetch(...),
\* lines 609-645.  notes.find on a value that is no array throws a TypeError
\* inside the try block, which the catch turns into localEnhanced.
GptOutcome(local, resp) ==
  IF resp.kind = "rejected" THEN local
  ELSE IF resp.kind = "notOk" THEN local
  ELSE IF resp.kind = "badJson" THEN local
  ELSE IF ~resp.success \/ resp.notes.kind = "missing" THEN local
  ELSE IF resp.notes.kind = "noArray" THEN local
  ELSE MergeNotes(local, resp.notes.items)

\* The notes a response may carry for a run over the years of the config
Note(year, text) ==
  [ ageYears |-> year, personalizedNote |-> text, priority |-> "medium" ]

NoteLists(cfg) ==
  LET y0 == cfg.startAgeMonths \div 12
      y1 == cfg.endAgeMonths \div 12
  IN  { << >>,
        << Note(y0, "A note from the model.") >>,
        << Note(y1, "First."), Note(y1, "Second.") >>,
        << Note(y1 + 1, "Beyond the horizon.") >> }

Responses(cfg) ==
  { [ kind |-> "rejected" ], [ kind |-> "notOk" ], [ kind |-> "badJson" ] }
  \cup { [ kind |-> "payload", success |-> FALSE, notes |-> [ kind |-> "array", items |-> << >> ] ],
         [ kind |-> "payload", success |-> TRUE, notes |-> [ kind |-> "missing" ] ],
         [ kind |-> "payload", success |-> TRUE, notes |-> [ kind |-> "noArray" ] ] }
  \cup { [ kind |-> "payload", success |-> TRUE, notes |-> [ kind |-> "array", items |-> n ] ] :
           n \in NoteLists(cfg) }

\* enhanceSimulationWithGPT up to  await fetch(...): the local enhancement
\* (line 591) and the request (lines 595-607)
EnhanceCall ==
  /\ pc = "simulated"
  /\ localEnhanced' = enhanceSimulationLocally(result, config.catProfile, config.careRoutine)
  /\ pc' = "awaiting"
  /\ UNCHANGED << config, month, currentWeight, points, result, response, returned >>
  /\ UNCHANGED uiVars

\* The request settles: the network's step, not the program's
FetchSettles ==
  /\ pc = "awaiting"
  /\ \E resp \in Responses(config) : response' = Some(resp)
  /\ pc' = "settled"
  /\ UNCHANGED << config, month, currentWeight, points, result, localEnhanced, returned >>
  /\ UNCHANGED uiVars

\* enhanceSimulationWithGPT resumes after the await and returns
EnhanceResume ==
  /\ pc = "settled"
  /\ returned' = GptOutcome(localEnhanced, response[1])
  /\ pc' = "returned"
  /\ UNCHANGED << config, month, currentWeight, points, result, localEnhanced, response >>
  /\ UNCHANGED uiVars

-----------------------------------------------------------------------------
(* The inputs of the pipeline *)

Profile(name, breed, years, months, weightKg, conditions) ==
  [ name |-> name, breed |-> breed, ageYears |-> years, ageMonths |-> months,
    weightKg |-> weightKg, indoorOutdoor |-> Some("indoor"),
    knownConditions |-> conditions ]

Routines ==
  { \* nothing answered
    [ foodType |-> None, foodAmountOzPerDay |-> None, treatsPerDay |-> None,
      playMinutesPerDay |-> None, vetVisitsPerYear |-> None ],
    \* a lot of dry food and treats, no play, no vet
    [ foodType |-> Some("dry"), foodAmountOzPerDay |-> Some(1200000), treatsPerDay |-> Some(8),
      playMinutesPerDay |-> Some(0), vetVisitsPerYear |-> Some(0) ],
    \* little wet food, much play, two vet visits
    [ foodType |-> Some("wet"), foodAmountOzPerDay |-> Some(200000), treatsPerDay |-> Some(1),
      playMinutesPerDay |-> Some(60), vetVisitsPerYear |-> Some(2) ] }

\* name, breed, weightKg, knownConditions, ageYears, ageMonths: cats around
\* the first birthday, the second, the tenth, the fifteenth and the end of the
\* horizon, under, inside and far above the ideal range of their breed
Cats ==
  { << Some("Milo"), Some("Maine Coon"), Some(1500000), << >>, Some(9), Some(10) >>,
    << Some("Milo"), Some("Maine Coon"), Some(100000), << >>, Some(0), Some(10) >>,
    << None, Some(" Siamese "), Some(100000), << "asthma" >>, None, Some(11) >>,
    << None, Some(" Siamese "), Some(400000), << "asthma" >>, Some(9), Some(10) >>,
    << Some(""), None, None, << >>, Some(14), Some(11) >>,
    << Some(""), None, None, << >>, Some(0), Some(10) >>,
    << Some("Tom"), Some("Xyzzycat"), Some(450000), << >>, Some(19), Some(10) >>,
    << Some("Tom"), Some("Xyzzycat"), Some(825000), << >>, Some(9), None >>,
    << Some("Rex"), Some("Devon Rex"), Some(200000), << >>, Some(15), None >>,
    << Some("Rex"), Some("Devon Rex"), Some(320000), << >>, None, None >>,
    << Some("Obi"), Some("constructor"), Some(450000), << >>, Some(3), None >> }

\* startAge as runQuickSimulation / runEnhancedSimulation /
\* runFullyEnhancedSimulation compute it
StartAgeOf(catProfile) ==
  Coalesce(catProfile.ageYears, 1) * 12 + Coalesce(catProfile.ageMonths, 0)

Configs ==
  { [ catProfile |-> Profile(c[1], c[2], c[5], c[6], c[3], c[4]),
      careRoutine |-> r,
      startAgeMonths |-> StartAgeOf(Profile(c[1], c[2], c[5], c[6], c[3], c[4])),
      endAgeMonths |-> StartAgeOf(Profile(c[1], c[2], c[5], c[6], c[3], c[4])) + len ] :
      c \in Cats, r \in Routines, len \in 0..MaxLen }

-----------------------------------------------------------------------------
(* CatLifePage (page.tsx 33-485) and SimulationTimeline                    *)
(*                                                                         *)
(* A simulation the page or the timeline holds is kept with the number of  *)
(* the run that produced it: [run |-> r, data |-> the result].  Two runs,   *)
(* each with its own random noise, give two different results.             *)

\* Bounds of the model
MaxRuns == 2         \* runs of /api/catlife/simulate started
MaxResets == 1       \* times the page is reset

\* DEFAULT_CAT_PROFILE and DEFAULT_CARE_ROUTINE, the fields the engine reads
DEFAULT_CAT_PROFILE ==
  [ name |-> None, breed |-> None, ageYears |-> None, ageMonths |-> None,
    weightKg |-> None, indoorOutdoor |-> None, knownConditions |-> << >> ]

DEFAULT_CARE_ROUTINE ==
  [ foodType |-> None, foodAmountOzPerDay |-> None, treatsPerDay |-> None,
    playMinutesPerDay |-> None, vetVisitsPerYear |-> None ]

\* The page before anything happened
UiIdle ==
  /\ currentStep = "mode_select"
  /\ setupMode = None
  /\ pageCatProfile = DEFAULT_CAT_PROFILE
  /\ pageCareRoutine = DEFAULT_CARE_ROUTINE
  /\ simulationResult = None
  /\ timeline = None
  /\ instances = 0
  /\ runs = 0
  /\ resets = 0
  /\ inflight = {}

\* getProgressSteps
ProgressSteps(mode) ==
  IF mode = Some("quick")
    THEN << "quick_photos", "quick_form", "simulation", "reminders" >>
    ELSE << "chat", "simulation", "reminders" >>

\* steps.findIndex(s => s.id === currentStep), 0 for -1
StepIndex(steps, step) ==
  LET hits == { i \in 1..Len(steps) : steps[i] = step }
  IN  IF hits = {} THEN 0 ELSE CHOOSE i \in hits : \A j \in hits : i <= j

\* runSimulation with the same noise every month: the loop as a whole
runSimulationWith(cfg, noise) ==
  LET idealRange == getIdealWeightRange(cfg.catProfile.breed)
      drift == MonthlyDrift(cfg, idealRange)
      Step(prev, m) ==
        Bind(AgeAdjustedWeight(DriftedWeight(prev.weight, drift, noise), m, idealRange),
             LAMBDA weight :
               [ weight |-> weight,
                 pts |-> Append(prev.pts, SimulationPoint(m, weight, cfg, idealRange)) ])
      Loop[m \in cfg.startAgeMonths..(cfg.endAgeMonths + 1)] ==
        IF m = cfg.startAgeMonths
          THEN [ weight |-> Coalesce(cfg.catProfile.weightKg, MidIdeal(idealRange)),
                 pts |-> << >> ]
          ELSE Bind(Loop[m - 1], LAMBDA prev : Step(prev, m - 1))
  IN  IF cfg.startAgeMonths > cfg.endAgeMonths
        THEN BuildResult(<< >>, cfg, idealRange)
        ELSE Bind(Loop[cfg.endAgeMonths + 1].pts,
                  LAMBDA pts : BuildResult(pts, cfg, idealRange))

\* runEnhancedSimulation: the base simulation to month 240, enhanced locally
runEnhancedSimulation(profile, routine, noise) ==
  Bind(runSimulationWith([ catProfile |-> profile, careRoutine |-> routine,
                           startAgeMonths |-> StartAgeOf(profile), endAgeMonths |-> 240 ],
                         noise),
       LAMBDA baseResult : enhanceSimulationLocally(baseResult, profile, routine))

\* What the form or the chat hands to the page: cats close to month 240
UiCats ==
  { << Profile(Some("Tom"), Some("Xyzzycat"), Some(19), Some(10), Some(450000), << >>),
       [ foodType |-> Some("dry"), foodAmountOzPerDay |-> Some(1200000), treatsPerDay |-> Some(8),
         playMinutesPerDay |-> Some(0), vetVisitsPerYear |-> Some(0) ] >>,
    << Profile(Some("Milo"), Some("Maine Coon"), Some(19), Some(11), Some(700000), << >>),
       DEFAULT_CARE_ROUTINE >> }

\* SimulationTimeline's local analyzeTrajectoryLocally (lines 189-219).  The
\* averages of an empty list are 0 / 0, NaN, which compares false.
analyzeTrajectoryLocally(pts) ==
  LET yearly == YearlyPoints(pts)
      n == Len(yearly)
      midpoint == n \div 2
      s1 == SumScores(yearly, midpoint)
      s2 == SumScores(yearly, n) - s1
      trend == IF midpoint = 0 \/ n - midpoint = 0 THEN "stable"
               ELSE Trend(s1, midpoint, s2, n - midpoint)
      StatusAt(m) ==
        LET hits == { i \in 1..n : yearly[i].ageMonths = m }
        IN  IF hits = {} THEN "ok"
            ELSE yearly[CHOOSE i \in hits : \A j \in hits : i <= j].healthStatus
  IN  [ trend |-> trend,
        projectedStatusAtYear10 |-> StatusAt(120),
        projectedStatusAtYear15 |-> StatusAt(180),
        riskFactors |-> << >>,
        positiveFactors |-> << >>,
        averageHealthScore |-> [num |-> SumScores(yearly, n), den |-> n] ]

\* The map callback of enhanceWithGPT, lines 153-164:
\* notes: gptNote.personalizedNote || point.notes
TimelineMergeNote(point, notes) ==
  LET gptNote == FindNote(notes, point.ageMonths \div 12)
  IN  IF IsNull(gptNote) THEN point
      ELSE Spread(point, [ enhancedNote |-> gptNote[1],
                           notes |-> IF gptNote[1].personalizedNote # ""
                                       THEN gptNote[1].personalizedNote
                                       ELSE point.notes ])

\* The object enhanceWithGPT builds on success, lines 166-173
TimelineEnhanced(baseSimulation, notes) ==
  Spread(baseSimulation,
         [ enhancedPoints |->
             [ i \in 1..Len(baseSimulation.points) |->
                 TimelineMergeNote(baseSimulation.points[i], notes) ],
           trajectory |-> analyzeTrajectoryLocally(baseSimulation.points),
           breedProfile |-> None,
           progressiveTimeline |-> << >>,
           isEnhanced |-> TRUE ])

\* data.simulation.enhancedPoints?.some(p => p.enhancedNote?.personalizedNote)
HasGPTNotes(simulation) ==
  /\ "enhancedPoints" \in DOMAIN simulation
  /\ \E i \in 1..Len(simulation.enhancedPoints) :
       /\ "enhancedNote" \in DOMAIN simulation.enhancedPoints[i]
       /\ simulation.enhancedPoints[i].enhancedNote.personalizedNote # ""

\* The answers of /api/catlife/simulate to a request (the route is not part
\* of these sources): the locally enhanced simulation of the profile, or the
\* same with personalised notes already merged in.
ServerSimulations(req) ==
  Bind(runEnhancedSimulation(req.catProfile, req.careRoutine, 0),
       LAMBDA local : { local, MergeNotes(local, << Note(20, "Twenty years!") >>) })

\* The notes /api/catlife/generate-milestone-notes answers with
UiNoteLists == { << Note(19, "Nineteen and going strong.") >>,
                 << Note(20, "") >> }

\* A SimulationTimeline that has just mounted: useState initial values and
\* the effect of line 73, which calls runSimulation up to its  await fetch
NewTimeline(id) ==
  [ id |-> id, simulation |-> None, isLoading |-> TRUE, isEnhancing |-> FALSE,
    error |-> None ]

SimulateRequest(id, run, profile, routine) ==
  [ kind |-> "simulate", instance |-> id, run |-> run, session |-> resets,
    catProfile |-> profile, careRoutine |-> routine ]

NotesRequest(req, tagged) ==
  [ kind |-> "notes", instance |-> req.instance, run |-> req.run, session |-> req.session,
    catProfile |-> req.catProfile, careRoutine |-> req.careRoutine, base |-> tagged ]

\* setCurrentStep(step) and the render that follows: leaving "simulation"
\* unmounts the SimulationTimeline, entering it mounts a new one with the
\* props of that render, and its mount effect starts a run.
GoTo(step, profile, routine) ==
  /\ currentStep' = step
  /\ IF step = "simulation" /\ currentStep # "simulation"
       THEN /\ runs < MaxRuns
            /\ instances' = instances + 1
            /\ runs' = runs + 1
            /\ timeline' = NewTimeline(instances + 1)
            /\ inflight' = inflight \cup
                 { SimulateRequest(instances + 1, runs + 1, profile, routine) }
       ELSE /\ timeline' = IF step = "simulation" THEN timeline ELSE None
            /\ UNCHANGED << instances, runs, inflight >>

\* State setters called by a callback of an instance: they act only while
\* that instance is the mounted one
SetTimeline(id, updates) ==
  timeline' = IF ~IsNull(timeline) /\ timeline.id = id
                THEN Spread(timeline, updates)
                ELSE timeline

pageFrame == << setupMode, pageCatProfile, pageCareRoutine, simulationResult, resets >>

\* handleModeSelect
HandleModeSelect ==
  /\ currentStep = "mode_select"
  /\ \E mode \in { "quick", "chat" } :
       /\ setupMode' = Some(mode)
       /\ GoTo(IF mode = "quick" THEN "quick_photos" ELSE "chat",
               pageCatProfile, pageCareRoutine)
  /\ UNCHANGED << pageCatProfile, pageCareRoutine, simulationResult, resets >>
  /\ UNCHANGED simVars

\* handleQuickPhotosComplete
HandleQuickPhotosComplete ==
  /\ currentStep = "quick_photos"
  /\ GoTo("quick_form", pageCatProfile, pageCareRoutine)
  /\ UNCHANGED pageFrame
  /\ UNCHANGED simVars

\* onBack of the photo step, line 237
QuickPhotosBack ==
  /\ currentStep = "quick_photos"
  /\ GoTo("mode_select", pageCatProfile, pageCareRoutine)
  /\ UNCHANGED pageFrame
  /\ UNCHANGED simVars

\* handleQuickFormComplete
HandleQuickFormComplete ==
  /\ currentStep = "quick_form"
  /\ \E c \in UiCats :
       /\ pageCatProfile' = c[1]
       /\ pageCareRoutine' = c[2]
       /\ GoTo("simulation", c[1], c[2])
  /\ UNCHANGED << setupMode, simulationResult, resets >>
  /\ UNCHANGED simVars

\* onBack of the form step, line 254
QuickFormBack ==
  /\ currentStep = "quick_form"
  /\ GoTo("quick_photos", pageCatProfile, pageCareRoutine)
  /\ UNCHANGED pageFrame
  /\ UNCHANGED simVars

\* handleProfileUpdate, called by the chat with what it has learnt
HandleProfileUpdate ==
  /\ currentStep = "chat"
  /\ \E c \in UiCats :
       /\ pageCatProfile # c[1]
       /\ pageCatProfile' = c[1]
       /\ pageCareRoutine' = c[2]
  /\ UNCHANGED << currentStep, setupMode, simulationResult, timeline, instances, runs,
                  resets, inflight >>
  /\ UNCHANGED simVars

\* handleReadyForSimulation, the photo modal closed; the chat calls it once it
\* has reported a profile
HandleReadyForSimulation ==
  /\ currentStep = "chat"
  /\ pageCatProfile # DEFAULT_CAT_PROFILE
  /\ GoTo("simulation", pageCatProfile, pageCareRoutine)
  /\ UNCHANGED pageFrame
  /\ UNCHANGED simVars

\* onClick of a progress step, lines 178-182: back to a completed step
ProgressStepClick ==
  /\ currentStep \notin { "mode_select", "complete" }
  /\ LET steps == ProgressSteps(setupMode)
     IN  \E i \in 1..Len(steps) :
           /\ i < StepIndex(steps, currentStep)
           /\ GoTo(steps[i], pageCatProfile, pageCareRoutine)
  /\ UNCHANGED pageFrame
  /\ UNCHANGED simVars

\* "Set Up Reminders", line 372
SetUpReminders ==
  /\ currentStep = "simulation"
  /\ GoTo("reminders", pageCatProfile, pageCareRoutine)
  /\ UNCHANGED pageFrame
  /\ UNCHANGED simVars

\* onComplete of ReminderSetup, line 408
ReminderSetupComplete ==
  /\ currentStep = "reminders"
  /\ GoTo("complete", pageCatProfile, pageCareRoutine)
  /\ UNCHANGED pageFrame
  /\ UNCHANGED simVars

\* handleReset, from "Start Over" on the last step
HandleReset ==
  /\ currentStep = "complete"
  /\ resets < MaxResets
  /\ pageCatProfile' = DEFAULT_CAT_PROFILE
  /\ pageCareRoutine' = DEFAULT_CARE_ROUTINE
  /\ simulationResult' = None
  /\ setupMode' = None
  /\ currentStep' = "mode_select"
  /\ resets' = resets + 1
  /\ UNCHANGED << timeline, instances, runs, inflight >>
  /\ UNCHANGED simVars

\* SimulationTimeline.runSimulation resumes with a usable answer, lines
\* 104-118: setSimulation, onComplete (handleSimulationComplete of the page),
\* and enhanceWithGPT up to its  await fetch  when the answer has no
\* personalised notes
SimulateSucceeds ==
  /\ \E req \in inflight :
       /\ req.kind = "simulate"
       /\ \E data \in ServerSimulations(req) :
            LET tagged == [ run |-> req.run, data |-> data ]
            IN  /\ simulationResult' = tagged
                /\ IF HasGPTNotes(data)
                     THEN /\ SetTimeline(req.instance,
                                         [ simulation |-> tagged, isLoading |-> FALSE ])
                          /\ inflight' = inflight \ { req }
                     ELSE /\ SetTimeline(req.instance,
                                         [ simulation |-> tagged, isEnhancing |-> TRUE,
                                           isLoading |-> FALSE ])
                          /\ inflight' = (inflight \ { req }) \cup { NotesRequest(req, tagged) }
  /\ UNCHANGED << currentStep, setupMode, pageCatProfile, pageCareRoutine, instances, runs,
                  resets >>
  /\ UNCHANGED simVars

\* SimulationTimeline.runSimulation resumes in its catch block: fetch or
\* response.json() threw, or the answer had no success or no simulation
SimulateFails ==
  /\ \E req \in inflight :
       /\ req.kind = "simulate"
       /\ SetTimeline(req.instance,
                      [ error |-> Some("Couldn't run the simulation. Please try again."),
                        isLoading |-> FALSE ])
       /\ inflight' = inflight \ { req }
  /\ UNCHANGED << currentStep, setupMode, pageCatProfile, pageCareRoutine, simulationResult,
                  instances, runs, resets >>
  /\ UNCHANGED simVars

\* enhanceWithGPT resumes with notes, lines 149-177: setSimulation(enhanced)
\* and onComplete(enhanced)
NotesSucceed ==
  /\ \E req \in inflight :
       /\ req.kind = "notes"
       /\ \E notes \in UiNoteLists :
            LET tagged == [ run |-> req.run,
                            data |-> TimelineEnhanced(req.base.data, notes) ]
            IN  /\ SetTimeline(req.instance,
                               [ simulation |-> tagged, isEnhancing |-> FALSE ])
                /\ simulationResult' = tagged
       /\ inflight' = inflight \ { req }
  /\ UNCHANGED << currentStep, setupMode, pageCatProfile, pageCareRoutine, instances, runs,
                  resets >>
  /\ UNCHANGED simVars

\* NotesFail that also takes the simulation away
NotesFailClears ==
  /\ \E req \in inflight :
       /\ req.kind = "notes"
       /\ SetTimeline(req.instance, [ simulation |-> None, isEnhancing |-> FALSE ])
       /\ inflight' = inflight \ { req }
  /\ UNCHANGED << currentStep, setupMode, pageCatProfile, pageCareRoutine, simulationResult,
                  instances, runs, resets >>
  /\ UNCHANGED simVars

\* enhanceWithGPT resumes without notes: a response that is not OK, a payload
\* without success or notes, or the catch block
NotesFail ==
  /\ \E req \in inflight :
       /\ req.kind = "notes"
       /\ SetTimeline(req.instance, [ isEnhancing |-> FALSE ])
       /\ inflight' = inflight \ { req }
  /\ UNCHANGED << currentStep, setupMode, pageCatProfile, pageCareRoutine, simulationResult,
                  instances, runs, resets >>
  /\ UNCHANGED simVars

\* "Try Again", line 291, shown while error is set: runSimulation up to its
\* await fetch
TryAgain ==
  /\ ~IsNull(timeline)
  /\ ~IsNull(timeline.error)
  /\ runs < MaxRuns
  /\ runs' = runs + 1
  /\ timeline' = Spread(timeline, [ isLoading |-> TRUE, error |-> None ])
  /\ inflight' = inflight \cup
       { SimulateRequest(timeline.id, runs + 1, pageCatProfile, pageCareRoutine) }
  /\ UNCHANGED << currentStep, setupMode, pageCatProfile, pageCareRoutine, simulationResult,
                  instances, resets >>
  /\ UNCHANGED simVars

-----------------------------------------------------------------------------
(* The pipeline: runSimulation, then enhanceSimulationWithGPT *)

Init ==
  /\ config \in Configs
  /\ pc = "start"
  /\ month = 0
  /\ currentWeight = 0
  /\ points = << >>
  /\ result = None
  /\ localEnhanced = None
  /\ response = None
  /\ returned = None
  /\ UiIdle

Next ==
  \/ RunSimulationEnter
  \/ RunSimulationMonth
  \/ RunSimulationReturn
  \/ EnhanceCall
  \/ FetchSettles
  \/ EnhanceResume

Spec == Init /\ [][Next]_vars

\* The steps the program takes by itself; FetchSettles is the network's
ProgramStep ==
  \/ RunSimulationEnter
  \/ RunSimulationMonth
  \/ RunSimulationReturn
  \/ EnhanceCall
  \/ EnhanceResume

-----------------------------------------------------------------------------
(* findBreedProfile and getIdealWeightRange on breed names *)

\* Every canonical name and alias of the database
RegistryNames ==
  UNION { { BREED_HEALTH_DATABASE[i].breed }
            \cup { BREED_HEALTH_DATABASE[i].aliases[k] :
                     k \in 1..Len(BREED_HEALTH_DATABASE[i].aliases) } :
          i \in 1..Len(BREED_HEALTH_DATABASE) }

\* The breed of a profile: null, empty, blank, the names of the registry in
\* their own and in other spelling, the keys of the fallback table, names
\* nobody knows, and names every JavaScript object knows
BreedInputs ==
  { None, Some(""), Some("   "), Some("Xyzzycat"), Some("MAINE COON"), Some(" Siamese "),
    Some("constructor"), Some("__proto__") }
    \cup { Some(n) : n \in RegistryNames }
    \cup { Some(n) : n \in DOMAIN FALLBACK_BREED_SIZES }

LookupInit ==
  /\ config \in { [ breed |-> b ] : b \in BreedInputs }
  /\ pc = "lookup"
  /\ month = 0
  /\ currentWeight = 0
  /\ points = << >>
  /\ result = None
  /\ localEnhanced = None
  /\ response = None
  /\ returned = None
  /\ UiIdle

\* const breedProfile = findBreedProfile(breed)
FindBreed ==
  /\ pc = "lookup"
  /\ result' = [ breedProfile |-> findBreedProfile(config.breed) ]
  /\ pc' = "found"
  /\ UNCHANGED << config, month, currentWeight, points, localEnhanced, response, returned >>
  /\ UNCHANGED uiVars

\* const idealRange = getIdealWeightRange(catProfile.breed)
IdealRange ==
  /\ pc = "found"
  /\ result' = Spread(result, [ idealRange |-> getIdealWeightRange(config.breed) ])
  /\ pc' = "ranged"
  /\ UNCHANGED << config, month, currentWeight, points, localEnhanced, response, returned >>
  /\ UNCHANGED uiVars

LookupNext == FindBreed \/ IdealRange

LookupSpec == LookupInit /\ [][LookupNext]_vars

-----------------------------------------------------------------------------
(* determineHealthStatus and generateAlerts on points of chosen weights *)

\* The weight of a point as a percentage of the ideal maximum of the breed
WeightPercents == { 60, 80, 100, 116, 150 }

AlertRoutines ==
  Routines \cup
  { [ foodType |-> Some("mixed"), foodAmountOzPerDay |-> Some(350000), treatsPerDay |-> Some(2),
      playMinutesPerDay |-> Some(15), vetVisitsPerYear |-> Some(1) ] }

AlertConfigs ==
  { [ catProfile |-> Profile(c[1], c[2], c[5], c[6], c[3], c[4]),
      careRoutine |-> r,
      startAgeMonths |-> StartAgeOf(Profile(c[1], c[2], c[5], c[6], c[3], c[4])),
      endAgeMonths |-> StartAgeOf(Profile(c[1], c[2], c[5], c[6], c[3], c[4])) + len ] :
      c \in { d \in Cats : ~IsNull(getIdealWeightRange(d[2])) },
      r \in AlertRoutines, len \in 0..MaxLen }

AlertInit ==
  /\ config \in AlertConfigs
  /\ pc = "points"
  /\ month = config.startAgeMonths
  /\ currentWeight = 0
  /\ points = << >>
  /\ result = None
  /\ localEnhanced = None
  /\ response = None
  /\ returned = None
  /\ UiIdle

\* A point of the month with a weight chosen against the ideal maximum, its
\* status by determineHealthStatus
PushPoint ==
  /\ pc = "points"
  /\ LoopContinues(month, config)
  /\ \E percent \in WeightPercents :
       LET idealRange == getIdealWeightRange(config.catProfile.breed)
           weight == (idealRange.max * percent) \div 100
       IN  /\ currentWeight' = weight
           /\ points' = Append(points, SimulationPoint(month, weight, config, idealRange))
  /\ month' = month + 1
  /\ UNCHANGED << config, pc, result, localEnhanced, response, returned >>
  /\ UNCHANGED uiVars

\* generateAlerts over the points
EmitAlerts ==
  /\ pc = "points"
  /\ ~LoopContinues(month, config)
  /\ result' = [ points |-> points,
                 alerts |-> generateAlerts(points, config.catProfile, config.careRoutine,
                                           getIdealWeightRange(config.catProfile.breed)) ]
  /\ pc' = "alerts"
  /\ UNCHANGED << config, month, currentWeight, points, localEnhanced, response, returned >>
  /\ UNCHANGED uiVars

AlertNext ==
  \/ PushPoint
  \/ EmitAlerts

AlertSpec == AlertInit /\ [][AlertNext]_vars

-----------------------------------------------------------------------------
(* The page with its SimulationTimeline *)

UiInit ==
  /\ config = None
  /\ pc = "idle"
  /\ month = 0
  /\ currentWeight = 0
  /\ points = << >>
  /\ result = None
  /\ localEnhanced = None
  /\ response = None
  /\ returned = None
  /\ UiIdle

UiNext ==
  \/ HandleModeSelect
  \/ HandleQuickPhotosComplete
  \/ QuickPhotosBack
  \/ HandleQuickFormComplete
  \/ QuickFormBack
  \/ HandleProfileUpdate
  \/ HandleReadyForSimulation
  \/ ProgressStepClick
  \/ SetUpReminders
  \/ ReminderSetupComplete
  \/ HandleReset
  \/ SimulateSucceeds
  \/ SimulateFails
  \/ NotesSucceed
  \/ NotesFail
  \/ TryAgain

UISpec == UiInit /\ [][UiNext]_vars

-----------------------------------------------------------------------------
(* runEnhancedSimulation: the whole horizon, to month 240 *)

\* Profiles whose breed has screenings and health risks inside the horizon:
\* the Maine Coon of one year; a cat of no stated breed, two and a half years
\* old, whose profile has two risks of the same onset year; an Abyssinian of
\* exactly two years, the onset year of two of its risks; a newborn Sphynx
HorizonCats ==
  { Profile(Some("Milo"), Some("Maine Coon"), Some(1), Some(0), Some(600000), << >>),
    Profile(None, None, Some(2), Some(6), None, << >>),
    Profile(Some("Aby"), Some("Abyssinian"), Some(2), None, Some(400000), << "asthma" >>),
    Profile(Some("Sphynxie"), Some("sphinx"), Some(0), Some(0), Some(150000), << >>) }

\* const config = { catProfile, careRoutine, startAgeMonths: startAge,
\*                  endAgeMonths: 240 }
HorizonConfigs ==
  { [ catProfile |-> c, careRoutine |-> r,
      startAgeMonths |-> StartAgeOf(c), endAgeMonths |-> 240 ] :
      c \in HorizonCats, r \in Routines }

HorizonInit ==
  /\ config \in HorizonConfigs
  /\ pc = "start"
  /\ month = 0
  /\ currentWeight = 0
  /\ points = << >>
  /\ result = None
  /\ localEnhanced = None
  /\ response = None
  /\ returned = None
  /\ UiIdle

\* A month in which Math.random() returns 0.5
QuietMonth == RunSimulationMonthWith(0)

\* return enhanceSimulationLocally(baseResult, catProfile, careRoutine)
EnhanceLocally ==
  /\ pc = "simulated"
  /\ returned' = enhanceSimulationLocally(result, config.catProfile, config.careRoutine)
  /\ pc' = "returned"
  /\ UNCHANGED << config, month, currentWeight, points, result, localEnhanced, response >>
  /\ UNCHANGED uiVars

HorizonNext ==
  \/ RunSimulationEnter
  \/ QuietMonth
  \/ RunSimulationReturn
  \/ EnhanceLocally

HorizonSpec == HorizonInit /\ [][HorizonNext]_vars

-----------------------------------------------------------------------------
(* analyzeTrajectory on points of chosen statuses *)

MaxYears == 4        \* the points given to analyzeTrajectory span at most this many years

HealthStatuses == { "thriving", "ok", "risky", "unhealthy" }

\* One status per simulated year
YearStatuses == UNION { [ 1..n -> HealthStatuses ] : n \in 0..MaxYears }

\* The monthly points from month start on, twelve for every status of s, the
\* last cut of them left out
MonthlyPoints(start, s, cut) ==
  [ i \in 1..Max2(0, 12 * Len(s) - cut) |->
      [ ageMonths |-> start + i - 1,
        weightKgEstimate |-> 450000,
        healthStatus |-> s[((i - 1) \div 12) + 1],
        notes |-> "" ] ]

TrajectoryInit ==
  /\ \E start \in { 108, 115, 170 }, s \in YearStatuses, cut \in { 0, 7 } :
       /\ points = MonthlyPoints(start, s, cut)
       /\ config = [ catProfile |-> Profile(Some("Milo"), Some("Maine Coon"),
                                            Some(start \div 12), Some(start % 12),
                                            Some(600000), << >>),
                     careRoutine |-> CHOOSE r \in Routines : r.foodType = Some("dry"),
                     startAgeMonths |-> start,
                     endAgeMonths |-> start + Len(points) - 1 ]
  /\ pc = "points"
  /\ month = 0
  /\ currentWeight = 0
  /\ result = None
  /\ localEnhanced = None
  /\ response = None
  /\ returned = None
  /\ UiIdle

\* const trajectory = analyzeTrajectory(result.points, catProfile, careRoutine)
Analyze ==
  /\ pc = "points"
  /\ result' = [ points |-> points,
                 trajectory |-> analyzeTrajectory(points, config.catProfile,
                                                  config.careRoutine) ]
  /\ pc' = "analyzed"
  /\ UNCHANGED << config, month, currentWeight, points, localEnhanced, response, returned >>
  /\ UNCHANGED uiVars

TrajectorySpec == TrajectoryInit /\ [][Analyze]_vars

-----------------------------------------------------------------------------
(* generateSummary on points of chosen statuses *)

MaxBlocks == 5       \* a long run has this many half years of points

\* The runs: no point at all, four months, and MaxBlocks half years
SummaryConfigs ==
  { [ catProfile |-> Profile(Some("Milo"), Some("Maine Coon"), Some(9), Some(0),
                             Some(600000), << >>),
      careRoutine |-> CHOOSE r \in Routines : r.foodType = Some("dry"),
      startAgeMonths |-> 108,
      endAgeMonths |-> 108 + len - 1 ] : len \in { 0, 4, 6 * MaxBlocks } }

SummaryInit ==
  /\ config \in SummaryConfigs
  /\ pc = "points"
  /\ month = config.startAgeMonths
  /\ currentWeight = 0
  /\ points = << >>
  /\ result = None
  /\ localEnhanced = None
  /\ response = None
  /\ returned = None
  /\ UiIdle

\* The points of a run of one status: a month at a time in a run of four
\* months, half a year at a time in a long one
StatusRun(from, len, status) ==
  [ i \in 1..len |->
      [ ageMonths |-> from + i - 1,
        weightKgEstimate |-> 450000,
        healthStatus |-> status,
        notes |-> "" ] ]

PushRun ==
  /\ pc = "points"
  /\ LoopContinues(month, config)
  /\ \E status \in HealthStatuses :
       LET len == IF config.endAgeMonths - config.startAgeMonths < 6 THEN 1 ELSE 6
       IN  /\ points' = points \o StatusRun(month, len, status)
           /\ month' = month + len
  /\ UNCHANGED << config, pc, currentWeight, result, localEnhanced, response, returned >>
  /\ UNCHANGED uiVars

\* generateSummary over the points; trajectory is its local variable
Summarize ==
  /\ pc = "points"
  /\ ~LoopContinues(month, config)
  /\ result' =
       Spread([ points |-> points,
                trajectory |-> TrajectoryLabel(SumScores(LastPoints(points),
                                                         Len(LastPoints(points))),
                                               Len(LastPoints(points))) ],
              generateSummary(config.catProfile, config.careRoutine, points, << >>,
                              getIdealWeightRange(config.catProfile.breed)))
  /\ pc' = "summarized"
  /\ UNCHANGED << config, month, currentWeight, points, localEnhanced, response, returned >>
  /\ UNCHANGED uiVars

SummaryNext ==
  \/ PushRun
  \/ Summarize

SummarySpec == SummaryInit /\ [][SummaryNext]_vars

-----------------------------------------------------------------------------
(* determineHealthStatus on chosen parameters *)

\* The deviation of the weight from the middle of the ideal range, in
\* thousandths of the middle: at, just under and just over 10%, 20% and 35%,
\* to either side
DeviationsPerMille ==
  { 0, 50, 99, 100, 101, 150, 199, 200, 201, 300, 349, 350, 351, 600,
    -50, -99, -100, -101, -199, -200, -201, -349, -350, -351, -600 }

\* The parameters of a call: weight, idealRange, vetVisitsPerYear, ageMonths,
\* hasKnownConditions
StatusCalls ==
  { [ weight |-> MidIdeal(range) + (MidIdeal(range) * d) \div 1000,
      idealRange |-> range,
      vetVisitsPerYear |-> vet,
      ageMonths |-> age,
      hasKnownConditions |-> known ] :
      d \in DeviationsPerMille,
      range \in { FALLBACK_WEIGHT_RANGES["default"], maineCoon.idealWeight },
      vet \in { None, Some(0), Some(1), Some(2), Some(3) },
      age \in { 10, 24, 25, 180, 181, 240 },
      known \in BOOLEAN }

StatusInit ==
  /\ config \in StatusCalls
  /\ pc = "call"
  /\ month = 0
  /\ currentWeight = 0
  /\ points = << >>
  /\ result = None
  /\ localEnhanced = None
  /\ response = None
  /\ returned = None
  /\ UiIdle

\* const status = determineHealthStatus(currentWeight, idealRange,
\*   careRoutine.vetVisitsPerYear, month, catProfile.knownConditions.length > 0)
DetermineStatus ==
  /\ pc = "call"
  /\ result' = [ status |-> determineHealthStatus(config.weight, config.idealRange,
                                                  config.vetVisitsPerYear, config.ageMonths,
                                                  config.hasKnownConditions) ]
  /\ pc' = "classified"
  /\ UNCHANGED << config, month, currentWeight, points, localEnhanced, response, returned >>
  /\ UNCHANGED uiVars

StatusSpec == StatusInit /\ [][DetermineStatus]_vars

-----------------------------------------------------------------------------
(* Properties of runSimulation *)

\* C1: runSimulation returns exactly endAgeMonths - startAgeMonths + 1
\* points and the i-th point (0-based) has ageMonths = startAgeMonths + i.
C1_OnePointPerMonth ==
  ~IsNull(result) =>
    /\ Len(result.points) = config.endAgeMonths - config.startAgeMonths + 1
    /\ \A i \in 1..Len(result.points) :
         result.points[i].ageMonths = config.startAgeMonths + (i - 1)

C1_Witness ==
  /\ pc = "simulated"
  /\ Len(result.points) >= 3
  /\ result.points[3].ageMonths = config.startAgeMonths + 2

\* C2: every point returned by runSimulation has weightKgEstimate >= 1.5 kg,
\* after the juvenile and senior adjustments and the rounding.
C2_WeightFloor ==
  /\ \A i \in 1..Len(points) : points[i].weightKgEstimate >= 150000
  /\ ~IsNull(result) =>
       \A i \in 1..Len(result.points) : result.points[i].weightKgEstimate >= 150000

\* A cat entered below the floor is returned with a point at exactly 1.5 kg
C2_Witness ==
  /\ pc = "simulated"
  /\ Coalesce(config.catProfile.weightKg, 150000) < 150000
  /\ \E i \in 1..Len(result.points) : result.points[i].weightKgEstimate = 150000

\* C3: notes are non-empty only at the start point and at points with
\* ageMonths % 12 = 0; every other point has the empty string as notes.
C3_NotesOnlyAtMilestones ==
  ~IsNull(result) =>
    \A i \in 1..Len(result.points) :
      LET p == result.points[i]
      IN  (p.ageMonths # config.startAgeMonths /\ p.ageMonths % 12 # 0) => p.notes = ""

\* A result with a silent month and with a birthday note after the start
C3_Witness ==
  /\ pc = "simulated"
  /\ \E i, j \in 1..Len(result.points) :
       /\ result.points[i].notes = ""
       /\ result.points[j].ageMonths # config.startAgeMonths
       /\ result.points[j].notes # ""

-----------------------------------------------------------------------------
(* Properties of the enhancement layer *)

\* C4: when the external call fails (fetch throws, the response is not OK,
\* the body is unusable, or the payload lacks success or notes),
\* enhanceSimulationWithGPT returns a result equal in every field to what
\* enhanceSimulationLocally returns for the same base result, profile and
\* routine.
C4_FailureFallsBackToLocal ==
  (pc = "returned" /\ IsFailure(response[1])) =>
    returned = enhanceSimulationLocally(result, config.catProfile, config.careRoutine)

C4_Witness ==
  /\ pc = "returned"
  /\ response[1].kind = "notOk"
  /\ returned.isEnhanced
  /\ Len(returned.enhancedPoints) >= 2

\* C7: when the external call succeeds, alerts, summary, recommendations,
\* trajectory, breedProfile and progressiveTimeline equal the local ones, the
\* number and order of enhancedPoints is unchanged and each point keeps its
\* ageMonths, weightKgEstimate, healthStatus and breedHealthRisks.
C7_SuccessOnlyAddsNotes ==
  (pc = "returned" /\ ~IsFailure(response[1])) =>
    LET local == enhanceSimulationLocally(result, config.catProfile, config.careRoutine)
    IN  /\ returned.alerts = local.alerts
        /\ returned.summary = local.summary
        /\ returned.recommendations = local.recommendations
        /\ returned.trajectory = local.trajectory
        /\ returned.breedProfile = local.breedProfile
        /\ returned.progressiveTimeline = local.progressiveTimeline
        /\ Len(returned.enhancedPoints) = Len(local.enhancedPoints)
        /\ \A i \in 1..Len(local.enhancedPoints) :
             /\ returned.enhancedPoints[i].ageMonths = local.enhancedPoints[i].ageMonths
             /\ returned.enhancedPoints[i].weightKgEstimate
                  = local.enhancedPoints[i].weightKgEstimate
             /\ returned.enhancedPoints[i].healthStatus = local.enhancedPoints[i].healthStatus
             /\ returned.enhancedPoints[i].breedHealthRisks
                  = local.enhancedPoints[i].breedHealthRisks

\* A returned result in which a note of the response replaced the notes of a
\* point that has breed health risks
C7_Witness ==
  /\ pc = "returned"
  /\ ~IsFailure(response[1])
  /\ \E i \in 1..Len(returned.enhancedPoints) :
       /\ "enhancedNote" \in DOMAIN returned.enhancedPoints[i]
       /\ returned.enhancedPoints[i].notes = "A note from the model."
       /\ returned.enhancedPoints[i].breedHealthRisks # << >>

\* C8: enhanceSimulationLocally leaves the base result as it was, and the
\* enhancedPoints it returns have the length and order of the base points with
\* the same ageMonths, weightKgEstimate, healthStatus and notes at every index.
C8_LocalKeepsBase ==
  [][ (pc = "simulated" /\ pc' = "awaiting") =>
        /\ result' = result
        /\ Len(localEnhanced'.enhancedPoints) = Len(result.points)
        /\ \A i \in 1..Len(result.points) :
             /\ localEnhanced'.enhancedPoints[i].ageMonths = result.points[i].ageMonths
             /\ localEnhanced'.enhancedPoints[i].weightKgEstimate
                  = result.points[i].weightKgEstimate
             /\ localEnhanced'.enhancedPoints[i].healthStatus = result.points[i].healthStatus
             /\ localEnhanced'.enhancedPoints[i].notes = result.points[i].notes ]_vars

\* The enhancement of a result of three points, some with breed health risks
C8_Witness ==
  /\ pc = "awaiting"
  /\ Len(localEnhanced.enhancedPoints) >= 3
  /\ \E i \in 1..Len(localEnhanced.enhancedPoints) :
       localEnhanced.enhancedPoints[i].breedHealthRisks # << >>
  /\ Len(localEnhanced.alerts) > Len(result.alerts)

\* C6: enhanceSimulationWithGPT returns even if the external request never
\* responds: while it waits for the request, a step of the program itself (a
\* timeout) can end the wait.
C6_WaitIsBounded == pc = "awaiting" => ENABLED ProgramStep

-----------------------------------------------------------------------------
(* Properties of generateAlerts *)

IsVetGapAlert(a) == Prefix(a.id, 10) = "alert-vet-"
IsUnhealthyAlert(a) == Prefix(a.id, 16) = "alert-unhealthy-"
IsRiskyAlert(a) == Prefix(a.id, 12) = "alert-risky-"

\* C9: with vetVisitsPerYear below 1 (null counts as 0) and a point aged 120
\* months or more, generateAlerts returns exactly one senior vet-gap alert, of
\* severity info, at the first simulated month >= 120; with
\* vetVisitsPerYear >= 1 it returns none.
C9_VetGapOnce ==
  pc = "alerts" =>
    LET vetAlerts == SelectSeq(result.alerts, IsVetGapAlert)
        vetVisits == Coalesce(config.careRoutine.vetVisitsPerYear, 0)
        seniorMonths == { result.points[i].ageMonths : i \in
                            { j \in 1..Len(result.points) : result.points[j].ageMonths >= 120 } }
    IN  /\ (vetVisits < 1 /\ seniorMonths # {}) =>
             /\ Len(vetAlerts) = 1
             /\ vetAlerts[1].severity = "info"
             /\ vetAlerts[1].ageMonths \in seniorMonths
             /\ \A m \in seniorMonths : vetAlerts[1].ageMonths <= m
        /\ vetVisits >= 1 => vetAlerts = << >>

\* No vet care, the tenth birthday inside the run: the alert is at month 120
C9_Witness ==
  /\ pc = "alerts"
  /\ IsNull(config.careRoutine.vetVisitsPerYear)
  /\ config.startAgeMonths < 120
  /\ \E i \in 1..Len(result.alerts) :
       IsVetGapAlert(result.alerts[i]) /\ result.alerts[i].ageMonths = 120

\* C10: if the weight is 150% of the ideal maximum at every point, every
\* point is "unhealthy", and generateAlerts returns exactly one "unhealthy"
\* status-transition alert, critical, at the first simulated month, and no
\* "risky" status-transition alert.
C10_UnhealthyOnce ==
  LET idealRange == getIdealWeightRange(config.catProfile.breed)
  IN  ( /\ pc = "alerts"
        /\ \A i \in 1..Len(result.points) :
             result.points[i].weightKgEstimate * 100 = idealRange.max * 150 ) =>
        LET unhealthyAlerts == SelectSeq(result.alerts, IsUnhealthyAlert)
        IN  /\ \A i \in 1..Len(result.points) : result.points[i].healthStatus = "unhealthy"
            /\ Len(unhealthyAlerts) = 1
            /\ unhealthyAlerts[1].severity = "critical"
            /\ unhealthyAlerts[1].ageMonths = config.startAgeMonths
            /\ SelectSeq(result.alerts, IsRiskyAlert) = << >>

\* Three months at 150% of the ideal maximum
C10_Witness ==
  /\ pc = "alerts"
  /\ Len(result.points) >= 3
  /\ \A i \in 1..Len(result.points) :
       result.points[i].weightKgEstimate * 100
         = getIdealWeightRange(config.catProfile.breed).max * 150
  /\ \E i \in 1..Len(result.alerts) : IsUnhealthyAlert(result.alerts[i])

-----------------------------------------------------------------------------
(* Properties of the page and its timeline *)

\* A request whose run has been superseded: a newer run has started, or the
\* page has been reset since
Superseded(req) == req.run < runs \/ req.session < resets

\* C5: once a newer run has started (a re-run, a remount) or the page was
\* reset, the enhancement of an earlier run that arrives later is discarded:
\* it replaces neither the simulation the timeline shows nor the page's
\* simulationResult.
C5_StaleEnhancementDiscarded ==
  [][ \A req \in inflight :
        (req \notin inflight' /\ req.kind = "notes" /\ Superseded(req)) =>
          /\ simulationResult' = simulationResult
          /\ ~IsNull(timeline) => timeline'.simulation = timeline.simulation ]_vars

\* The enhancement of run 1 is still out while run 2 has its result
C5_Witness ==
  /\ \E req \in inflight : req.kind = "notes" /\ req.run = 1
  /\ runs = 2
  /\ ~IsNull(simulationResult)
  /\ simulationResult.run = 2



-----------------------------------------------------------------------------
(* Properties of the alert lists *)

SortedByAge(alerts) ==
  \A i \in 1..(Len(alerts) - 1) : alerts[i].ageMonths <= alerts[i + 1].ageMonths

\* C11: the alert list returned by generateAlerts and the merged alert list
\* returned by enhanceSimulationLocally are both sorted non-decreasing by
\* ageMonths.
C11_AlertsSorted ==
  /\ ~IsNull(result) => SortedByAge(result.alerts)
  /\ ~IsNull(localEnhanced) => SortedByAge(localEnhanced.alerts)

\* Base alerts and breed alerts interleaved in the merged list: a breed alert
\* before a base alert and a base alert before a breed alert
C11_Witness ==
  /\ pc = "awaiting"
  /\ Len(result.alerts) >= 2
  /\ \E i, j, k \in 1..Len(localEnhanced.alerts) :
       /\ i < j /\ j < k
       /\ Prefix(localEnhanced.alerts[i].id, 6) = "breed-"
       /\ localEnhanced.alerts[j] = result.alerts[1]
       /\ Prefix(localEnhanced.alerts[k].id, 6) = "breed-"
       /\ localEnhanced.alerts[i].ageMonths < localEnhanced.alerts[k].ageMonths

-----------------------------------------------------------------------------
(* Properties of the breed lookup *)

\* A breed name that is no canonical name and no alias, compared
\* case-insensitively
MatchesNoName(breedName) ==
  \A n \in RegistryNames : ToLowerTrim(n) # ToLowerTrim(breedName)

\* C12: findBreedProfile is total: for null, for the empty string and for
\* any name that matches no canonical name and no alias it returns the
\* "Domestic Shorthair" profile, and it never returns null.
C12_FindBreedProfileTotal ==
  pc \in { "found", "ranged" } =>
    /\ ~IsNull(result.breedProfile)
    /\ ( \/ IsNull(config.breed)
         \/ config.breed = Some("")
         \/ MatchesNoName(config.breed[1]) ) =>
         result.breedProfile = domesticShorthair

\* A name of the language, not of a cat, resolved to the default profile
C12_Witness ==
  /\ pc = "found"
  /\ config.breed = Some("constructor")
  /\ result.breedProfile.breed = "Domestic Shorthair"

\* C13: for a breed name that is in neither the registry nor the fallback
\* size map, and for a null breed, getIdealWeightRange returns
\* {min 3.5, max 5.5}; for a name that resolves to a registry profile other
\* than the generic default it returns that profile's idealWeight.
C13_IdealWeightRange ==
  pc = "ranged" =>
    /\ ( \/ IsNull(config.breed)
         \/ /\ MatchesNoName(config.breed[1])
            /\ ToLowerTrim(config.breed[1]) \notin DOMAIN FALLBACK_BREED_SIZES ) =>
         result.idealRange = [ min |-> 350000, max |-> 550000 ]
    /\ result.breedProfile # domesticShorthair =>
         result.idealRange = result.breedProfile.idealWeight

-----------------------------------------------------------------------------
(* Properties of the breed alerts over the whole horizon *)

InRange(m) == config.startAgeMonths <= m /\ m <= config.endAgeMonths

\* C14: for every screening-schedule entry of the resolved breed profile
\* whose age in months lies within the simulated range, the enhanced alert
\* list contains exactly one screening alert for it, of severity info, with
\* ageMonths = ageYears * 12; the Maine Coon that starts at 1 year 0 months
\* has 229 points and its year-3 screening alert is at month 36.
C14_OneAlertPerScreening ==
  pc = "returned" =>
    LET schedules == findBreedProfile(config.catProfile.breed).screeningSchedule
    IN  /\ \A k \in 1..Len(schedules) :
             InRange(schedules[k].ageMonths) =>
               LET own == SelectSeq(returned.alerts,
                                    LAMBDA a : a.id = "breed-screening-" \o schedules[k].ageText)
               IN  /\ Len(own) = 1
                   /\ own[1].severity = "info"
                   /\ own[1].ageMonths = schedules[k].ageMonths
        /\ (config.catProfile.breed = Some("Maine Coon") /\ config.startAgeMonths = 12) =>
             /\ Len(returned.points) = 229
             /\ \E i \in 1..Len(returned.alerts) :
                  /\ returned.alerts[i].id = "breed-screening-3"
                  /\ returned.alerts[i].ageMonths = 36

\* The Maine Coon of one year, simulated to month 240 and enhanced
C14_Witness ==
  /\ pc = "returned"
  /\ config.catProfile.breed = Some("Maine Coon")
  /\ config.startAgeMonths = 12
  /\ Len(returned.enhancedPoints) = 229
  /\ \E i \in 1..Len(returned.alerts) :
       /\ returned.alerts[i].id = "breed-screening-3"
       /\ returned.alerts[i].recommendation
            = "Schedule: " \o JoinComma(maineCoon.screeningSchedule[2].screenings)
                \o ". " \o maineCoon.screeningSchedule[2].reason

-----------------------------------------------------------------------------
(* Properties of analyzeTrajectory *)

\* C15: for points with any number of yearly points, 0 and 1 included,
\* analyzeTrajectory returns a trend that is one of improving, stable or
\* declining and an averageHealthScore between 1 and 4 inclusive.
C15_TrajectoryInRange ==
  pc = "analyzed" =>
    LET t == result.trajectory
    IN  /\ t.trend \in { "improving", "stable", "declining" }
        /\ t.averageHealthScore.den > 0
        /\ t.averageHealthScore.den <= t.averageHealthScore.num
        /\ t.averageHealthScore.num <= 4 * t.averageHealthScore.den

\* Three yearly points that get better, with an average that is no integer
C15_Witness ==
  /\ pc = "analyzed"
  /\ Len(YearlyPoints(points)) = 3
  /\ result.trajectory.trend = "improving"
  /\ result.trajectory.averageHealthScore = [ num |-> 8, den |-> 3 ]

-----------------------------------------------------------------------------
(* Properties of the timeline's background enhancement *)

Mounted(req) == ~IsNull(timeline) /\ timeline.id = req.instance

\* C16: in SimulationTimeline the simulation without model notes is presented
\* (the simulation state set, onComplete called) by the step that issues the
\* background enhancement request; while that request is out the mounted
\* timeline shows that simulation, and when the request fails the simulation
\* shown stays the same and is not cleared.
C16_LocalResultShownFirst ==
  /\ [](\A req \in inflight :
          (req.kind = "notes" /\ Mounted(req)) => timeline.simulation = req.base)
  /\ [][ \A req \in inflight' \ inflight :
           req.kind = "notes" =>
             /\ simulationResult' = req.base
             /\ (~IsNull(timeline') /\ timeline'.id = req.instance) =>
                  timeline'.simulation = req.base ]_vars
  /\ [][ (NotesFail /\ ~IsNull(timeline)) =>
           /\ timeline'.simulation = timeline.simulation
           /\ (\E req \in inflight \ inflight' : Mounted(req)) =>
                ~IsNull(timeline'.simulation) ]_vars

\* The enhancement request of the mounted timeline has failed: the timeline
\* shows its simulation without model notes and is no longer enhancing
C16_Witness ==
  /\ ~IsNull(timeline)
  /\ ~IsNull(timeline.simulation)
  /\ ~HasGPTNotes(timeline.simulation.data)
  /\ ~IsNull(timeline.simulation.data.breedProfile)
  /\ ~timeline.isEnhancing
  /\ inflight = {}

-----------------------------------------------------------------------------
(* Properties of the status-transition alerts *)

\* The points at which the status has become s from one of the statuses from
StatusEntries(pts, s, from) ==
  { i \in 1..Len(pts) :
      /\ pts[i].healthStatus = s
      /\ (IF i = 1 THEN "thriving" ELSE pts[i - 1].healthStatus) \in from }

\* C17 as stated: in any run of generateAlerts at most one "risky" and at
\* most one "unhealthy" status-transition alert is emitted, also when the
\* status recovers and is entered again.
C17_AtMostOnePerCategory ==
  pc = "alerts" =>
    /\ Len(SelectSeq(result.alerts, IsRiskyAlert)) <= 1
    /\ Len(SelectSeq(result.alerts, IsUnhealthyAlert)) <= 1

\* C17 as amended: generateAlerts emits one "risky" alert for every point at
\* which the status becomes risky from thriving or ok and one "unhealthy"
\* alert for every point at which it becomes unhealthy from another status
\* (thriving counts as the status before the first point), each dated at
\* that point, and none while the status stays: a re-entry after a recovery
\* raises a further alert.
C17_OneAlertPerEntry ==
  pc = "alerts" =>
    /\ { a.ageMonths : a \in { result.alerts[k] : k \in
                                  { j \in 1..Len(result.alerts) : IsRiskyAlert(result.alerts[j]) } } }
         = { result.points[i].ageMonths :
               i \in StatusEntries(result.points, "risky", { "thriving", "ok" }) }
    /\ Len(SelectSeq(result.alerts, IsRiskyAlert))
         = Cardinality(StatusEntries(result.points, "risky", { "thriving", "ok" }))
    /\ { a.ageMonths : a \in { result.alerts[k] : k \in
                                  { j \in 1..Len(result.alerts) : IsUnhealthyAlert(result.alerts[j]) } } }
         = { result.points[i].ageMonths :
               i \in StatusEntries(result.points, "unhealthy", { "thriving", "ok", "risky" }) }
    /\ Len(SelectSeq(result.alerts, IsUnhealthyAlert))
         = Cardinality(StatusEntries(result.points, "unhealthy", { "thriving", "ok", "risky" }))

\* Risky, recovered, risky again: two "risky" alerts
C17_Witness ==
  /\ pc = "alerts"
  /\ Len(result.points) = 3
  /\ result.points[1].healthStatus = "risky"
  /\ result.points[2].healthStatus \in { "thriving", "ok" }
  /\ result.points[3].healthStatus = "risky"
  /\ Len(SelectSeq(result.alerts, IsRiskyAlert)) = 2

-----------------------------------------------------------------------------
(* Properties of the breed-specific risk alerts *)

\* The alerts of generateBreedSpecificAlerts for the run that has returned
BreedAlertsOfRun == generateBreedSpecificAlerts(config.catProfile, config.careRoutine,
                                                result.points)

\* The pre-warning and onset alerts among alerts that belong to risk
AlertsOfRisk(alerts, risk) ==
  LET pre == "breed-" \o ConditionSlug(risk.condition) \o "-prewarning-"
      ons == "breed-" \o ConditionSlug(risk.condition) \o "-onset-"
  IN  SelectSeq(alerts, LAMBDA a : \/ Prefix(a.id, Len(pre)) = pre
                                   \/ Prefix(a.id, Len(ons)) = ons)

\* C18: for every health risk of the resolved breed whose onset month lies
\* within the simulated range, generateBreedSpecificAlerts produces exactly
\* two alerts: a pre-warning at month max(onset - 12, simulation start) and
\* an onset alert at exactly the onset month, also when the onset month is
\* the simulation start.
C18_TwoAlertsPerRisk ==
  pc = "returned" =>
    LET risks == findBreedProfile(config.catProfile.breed).healthRisks
    IN  \A k \in 1..Len(risks) :
          InRange(risks[k].onsetMonths) =>
            LET own == AlertsOfRisk(BreedAlertsOfRun, risks[k])
                slug == ConditionSlug(risks[k].condition)
                pre == Max2(risks[k].onsetMonths - 12, config.startAgeMonths)
            IN  /\ Len(own) = 2
                /\ \E i \in 1..2 :
                     /\ own[i].id = "breed-" \o slug \o "-prewarning-" \o ToString(pre)
                     /\ own[i].ageMonths = pre
                /\ \E i \in 1..2 :
                     /\ own[i].id = "breed-" \o slug \o "-onset-"
                                      \o ToString(risks[k].onsetMonths)
                     /\ own[i].ageMonths = risks[k].onsetMonths

\* C19: every alert of the enhanced result has ageMonths within the
\* simulated range [startAgeMonths, endAgeMonths], startAgeMonths being
\* ageYears * 12 + ageMonths of the profile: no alert is dated before the
\* first simulated point, also when the age has a non-zero months part.
C19_AlertsWithinRange ==
  pc = "returned" =>
    /\ config.startAgeMonths = StartAgeOf(config.catProfile)
    /\ returned.points[1].ageMonths = config.startAgeMonths
    /\ \A i \in 1..Len(returned.alerts) : InRange(returned.alerts[i].ageMonths)

-----------------------------------------------------------------------------
(* Properties of the merge of the breed alerts into the alerts of the run *)

\* C20: the merge-and-deduplicate step of enhanceSimulationLocally removes
\* no alert about another health condition than the alert it keeps: the
\* onset alert of every health risk of the breed whose onset month is within
\* the simulated range is in the enhanced alert list, also when two risks of
\* the breed have the same onset year.
C20_OnsetAlertsKept ==
  pc = "returned" =>
    LET risks == findBreedProfile(config.catProfile.breed).healthRisks
    IN  \A k \in 1..Len(risks) :
          InRange(risks[k].onsetMonths) =>
            \E i \in 1..Len(returned.alerts) :
              returned.alerts[i].id = "breed-" \o ConditionSlug(risks[k].condition)
                                        \o "-onset-" \o ToString(risks[k].onsetMonths)

-----------------------------------------------------------------------------
(* Properties of the merge of the notes of the response *)

\* C21: when the notes of the response are merged by
\* enhanceSimulationWithGPT, every point with ageMonths % 12 # 0 keeps the
\* notes it had in the local-only result, so the points that are neither
\* yearly nor the start point still have empty notes after the enhancement.
C21_NotesOnlyAtYearlyPoints ==
  (pc = "returned" /\ ~IsFailure(response[1])) =>
    \A i \in 1..Len(returned.enhancedPoints) :
      returned.enhancedPoints[i].ageMonths % 12 # 0 =>
        /\ returned.enhancedPoints[i].notes = localEnhanced.enhancedPoints[i].notes
        /\ i > 1 => returned.enhancedPoints[i].notes = ""

-----------------------------------------------------------------------------
(* Properties of the background enhancement of SimulationTimeline *)

\* C22: when the background enhancement of the mounted SimulationTimeline
\* comes back, the simulation it presents keeps the breedProfile, the
\* progressiveTimeline, the trajectory and the per-point values of the
\* enhanced simulation presented before: it only adds note content and
\* replaces none of these by null, empty or coarser values.
C22_EnhancementKeepsEnhancedFields ==
  [][ \A req \in inflight \ inflight' :
        (req.kind = "notes" /\ Mounted(req)) =>
          LET before == timeline.simulation.data
              after == timeline'.simulation.data
          IN  /\ after.breedProfile = before.breedProfile
              /\ after.progressiveTimeline = before.progressiveTimeline
              /\ after.trajectory = before.trajectory
              /\ Len(after.enhancedPoints) = Len(before.enhancedPoints)
              /\ \A i \in 1..Len(before.enhancedPoints) :
                   /\ after.enhancedPoints[i].ageMonths = before.enhancedPoints[i].ageMonths
                   /\ after.enhancedPoints[i].weightKgEstimate
                        = before.enhancedPoints[i].weightKgEstimate
                   /\ after.enhancedPoints[i].healthStatus
                        = before.enhancedPoints[i].healthStatus
                   /\ "breedHealthRisks" \in DOMAIN after.enhancedPoints[i]
                   /\ after.enhancedPoints[i].breedHealthRisks
                        = before.enhancedPoints[i].breedHealthRisks ]_vars

-----------------------------------------------------------------------------
(* Properties of generateSummary *)

\* C23: the recommendations list returned by runSimulation has at least 3
\* and at most 5 entries, for every profile and routine, also when no
\* recommendation rule fires.
C23_ThreeToFiveRecommendations ==
  pc = "simulated" =>
    /\ Len(result.recommendations) >= 3
    /\ Len(result.recommendations) <= 5

\* Ten times the sum of the status scores of the last 24 points of pts (of
\* all of them when they are fewer), and their number
LastCount(pts) == IF Len(pts) < 24 THEN Len(pts) ELSE 24

LastScoreTimes10(pts) ==
  LET last == (Len(pts) - LastCount(pts) + 1)..Len(pts)
      Count(s) == Cardinality({ i \in last : pts[i].healthStatus = s })
  IN  40 * Count("thriving") + 30 * Count("ok") + 20 * Count("risky")
        + 10 * Count("unhealthy")

\* C24 as stated: generateSummary averages the status score over the last 24
\* simulated points and labels the trajectory excellent when the average is
\* >= 3.5, good when >= 2.5, concerning when >= 1.5 and needs attention
\* otherwise: 3.5, 2.5 and 1.5 themselves are in the higher bucket.
C24_BoundaryInHigherBucket ==
  (pc = "summarized" /\ Len(result.points) > 0) =>
    LET s == LastScoreTimes10(result.points)
        n == LastCount(result.points)
    IN  result.trajectory =
          IF s >= 35 * n THEN "excellent"
          ELSE IF s >= 25 * n THEN "good"
          ELSE IF s >= 15 * n THEN "concerning"
          ELSE "needs attention"

\* C24 as amended: generateSummary averages the status score over the last
\* 24 simulated points (over all of them when they are fewer) and labels the
\* trajectory excellent when the average is above 3.5, good when above 2.5,
\* concerning when above 1.5 and needs attention otherwise, also when there
\* is no point: 3.5, 2.5 and 1.5 themselves are in the lower bucket.  The
\* summary speaks of an excellent or good outlook exactly for these labels.
C24_BoundaryInLowerBucket ==
  pc = "summarized" =>
    LET s == LastScoreTimes10(result.points)
        n == LastCount(result.points)
    IN  /\ result.trajectory =
             IF n = 0 THEN "needs attention"
             ELSE IF s > 35 * n THEN "excellent"
             ELSE IF s > 25 * n THEN "good"
             ELSE IF s > 15 * n THEN "concerning"
             ELSE "needs attention"
        /\ result.summary = SummaryText(result.trajectory, "Milo")
        /\ (Prefix(result.summary, 9) = "Based on ")
             <=> (n > 0 /\ s > 25 * n)

\* Thirty points of which the last 24 are half thriving and half ok, an
\* average of exactly 3.5, after six unhealthy ones: the label is good
C24_Witness ==
  /\ pc = "summarized"
  /\ Len(result.points) = 30
  /\ result.points[1].healthStatus = "unhealthy"
  /\ LastScoreTimes10(result.points) = 35 * 24
  /\ result.trajectory = "good"
  /\ Contains(result.summary, "the long-term outlook is good!")

-----------------------------------------------------------------------------
(* Properties of the names of the registry *)

\* C25: findBreedProfile called with the canonical breed name of a profile
\* of BREED_HEALTH_DATABASE, in any letter case, returns that profile, and
\* no lookup string is a canonical name or alias of two different profiles.
C25_NamesResolveToOwnProfile ==
  (pc = "found" /\ ~IsNull(config.breed)) =>
    LET normalized == ToLowerTrim(config.breed[1])
    IN  /\ \A i \in 1..Len(BREED_HEALTH_DATABASE) :
             ToLowerTrim(BREED_HEALTH_DATABASE[i].breed) = normalized =>
               result.breedProfile = BREED_HEALTH_DATABASE[i]
        /\ Cardinality({ i \in 1..Len(BREED_HEALTH_DATABASE) :
                           ProfileMatches(BREED_HEALTH_DATABASE[i], normalized) }) <= 1

-----------------------------------------------------------------------------
(* Properties of the age adjustments of runSimulation *)

\* The weight of the month before the age adjustment, for one value of the
\* noise
WeightBeforeAdjustment(noise) ==
  DriftedWeight(currentWeight,
                MonthlyDrift(config, getIdealWeightRange(config.catProfile.breed)), noise)

\* C26: in runSimulation the juvenile adjustment (months < 12) never makes
\* the weight of the month lower than the weight computed before the
\* adjustment, and the senior adjustment (months > 180) never makes it
\* higher.
C26_AdjustmentsOneWay ==
  [][ (pc = "loop" /\ month' = month + 1) =>
        \A noise \in NoiseChoices :
          currentWeight' = AgeAdjustedWeight(WeightBeforeAdjustment(noise), month,
                                             getIdealWeightRange(config.catProfile.breed)) =>
            /\ month < 12 => currentWeight' >= WeightBeforeAdjustment(noise)
            /\ month > 180 => currentWeight' <= WeightBeforeAdjustment(noise) ]_vars

-----------------------------------------------------------------------------
(* Properties of determineHealthStatus *)

\* How good a status is
StatusRank(status) ==
  CASE status = "thriving" -> 4
    [] status = "ok" -> 3
    [] status = "risky" -> 2
    [] status = "unhealthy" -> 1

\* The status of the deviation d = |weight - midpoint| / midpoint alone:
\* thriving under 0.10, ok under 0.20, risky under 0.35, else unhealthy
StatusOfDeviation(weight, idealRange) ==
  LET mid2 == idealRange.min + idealRange.max
      dev == IF 2 * weight >= mid2 THEN 2 * weight - mid2 ELSE mid2 - 2 * weight
  IN  IF 100 * dev < 10 * mid2 THEN "thriving"
      ELSE IF 100 * dev < 20 * mid2 THEN "ok"
      ELSE IF 100 * dev < 35 * mid2 THEN "risky"
      ELSE "unhealthy"

\* C27: the care and age adjustments of determineHealthStatus only
\* downgrade: for all weights, ideal ranges, ages, vet-visit counts and
\* known-condition flags the returned status is never better than the status
\* of the weight deviation alone, and a status of unhealthy is never changed.
C27_AdjustmentsOnlyDowngrade ==
  pc = "classified" =>
    LET base == StatusOfDeviation(config.weight, config.idealRange)
    IN  /\ StatusRank(result.status) <= StatusRank(base)
        /\ base = "unhealthy" => result.status = "unhealthy"

\* A thriving weight that all three adjustments have worked on: risky
C27_Witness ==
  /\ pc = "classified"
  /\ StatusOfDeviation(config.weight, config.idealRange) = "thriving"
  /\ config.vetVisitsPerYear = Some(0)
  /\ config.ageMonths = 181
  /\ config.hasKnownConditions
  /\ result.status = "risky"

\* C28: with vetVisitsPerYear >= 2 no adjustment applies and
\* determineHealthStatus classifies by the relative deviation d alone:
\* thriving when d < 0.10, ok when 0.10 <= d < 0.20, risky when
\* 0.20 <= d < 0.35, unhealthy when d >= 0.35.
C28_DeviationAloneWithVetCare ==
  (pc = "classified" /\ Coalesce(config.vetVisitsPerYear, 0) >= 2) =>
    result.status = StatusOfDeviation(config.weight, config.idealRange)

\* An old cat with known conditions and two vet visits whose weight is
\* exactly 10% above the middle of the ideal range: ok, from the weight
C28_Witness ==
  /\ pc = "classified"
  /\ config.vetVisitsPerYear = Some(2)
  /\ config.ageMonths = 181
  /\ config.hasKnownConditions
  /\ 20 * config.weight = 11 * (config.idealRange.min + config.idealRange.max)
  /\ result.status = "ok"

-----------------------------------------------------------------------------
(* Properties of the weight alert *)

IsWeightAlert(a) == Prefix(a.id, 13) = "alert-weight-"

\* C29: in any run of generateAlerts the weight-deviation alert is emitted
\* at most once, with severity warning, at the first simulated month whose
\* weight exceeds 115% of the ideal maximum; it is emitted if and only if
\* some point exceeds that threshold, and later months above the threshold
\* do not raise it again.
C29_WeightAlertOnce ==
  pc = "alerts" =>
    LET idealRange == getIdealWeightRange(config.catProfile.breed)
        weightAlerts == SelectSeq(result.alerts, IsWeightAlert)
        over == { i \in 1..Len(result.points) :
                    result.points[i].weightKgEstimate * 100 > idealRange.max * 115 }
    IN  /\ Len(weightAlerts) <= 1
        /\ over = {} <=> weightAlerts = << >>
        /\ over # {} =>
             /\ weightAlerts[1].severity = "warning"
             /\ weightAlerts[1].ageMonths
                  = result.points[CHOOSE i \in over : \A j \in over : i <= j].ageMonths

\* The weight at the ideal maximum, then 16% and 50% above it: one alert, at
\* the second month
C29_Witness ==
  /\ pc = "alerts"
  /\ Len(result.points) = 3
  /\ LET max == getIdealWeightRange(config.catProfile.breed).max
     IN  /\ result.points[1].weightKgEstimate = max
         /\ result.points[2].weightKgEstimate * 100 > max * 115
         /\ result.points[3].weightKgEstimate * 100 > max * 115
  /\ Len(SelectSeq(result.alerts, IsWeightAlert)) = 1
  /\ \E i \in 1..Len(result.alerts) :
       /\ IsWeightAlert(result.alerts[i])
       /\ result.alerts[i].ageMonths = result.points[2].ageMonths

\* C30: in a run with zero or unspecified vet visits per year no simulated
\* point older than 24 months has status thriving, and no simulated point
\* older than 180 months has a status better than risky, whatever the
\* weights are.
C30_NoVetCareCapsStatus ==
  (pc = "alerts" /\ Coalesce(config.careRoutine.vetVisitsPerYear, 0) = 0) =>
    \A i \in 1..Len(result.points) :
      /\ result.points[i].ageMonths > 24 => result.points[i].healthStatus # "thriving"
      /\ result.points[i].ageMonths > 180 =>
           result.points[i].healthStatus \in { "risky", "unhealthy" }

\* A run without vet care over the months 179, 180 and 181 with a weight in
\* the middle of the ideal range: ok, ok, risky
C30_Witness ==
  /\ pc = "alerts"
  /\ Coalesce(config.careRoutine.vetVisitsPerYear, 0) = 0
  /\ Len(result.points) = 3
  /\ result.points[1].ageMonths = 179
  /\ \A i \in 1..3 :
       StatusOfDeviation(result.points[i].weightKgEstimate,
                         getIdealWeightRange(config.catProfile.breed)) = "thriving"
  /\ result.points[2].healthStatus = "ok"
  /\ result.points[3].healthStatus = "risky"
=============================================================================
